---- MODULE Spec2Model ----
(***************************************************************************)
(* Model of the REST agent's polling tool (api_agent/agent/rest_agent.py): *)
(* poll_until_done, the dotted-path accessor _get_nested_value and the     *)
(* request capability it drives.                                           *)
(*                                                                         *)
(* Text that the code inspects character by character (dotted paths, done  *)
(* values, glob patterns, error messages) is a sequence of one-character   *)
(* strings.  JSON values are tagged records: [t |-> tag, v |-> payload];   *)
(* a mapping keeps its items as a sequence of [k, v] pairs in insertion    *)
(* order, as a Python dict does.                                           *)
(***************************************************************************)
EXTENDS Integers, Sequences, FiniteSets, TLC

(***************************************************************************)
(* Bounds of the model.                                                    *)
(***************************************************************************)
\* settings.MAX_POLLS (api_agent/config.py), read at rest_agent.py:326: the
\* attempt ceiling of one poll_until_done invocation.
MAX_POLLS == 3

(***************************************************************************)
(* JSON values.                                                            *)
(***************************************************************************)
None == [t |-> "null"]
JInt(n) == [t |-> "int", v |-> n]
JStr(s) == [t |-> "str", v |-> s]
JBool(b) == [t |-> "bool", v |-> b]
JList(s) == [t |-> "list", v |-> s]
JDict(s) == [t |-> "dict", v |-> s]
KV(k, val) == [k |-> k, v |-> val]

\* The outcome of an evaluation that raised instead of returning.
Raised(e) == [t |-> "raise", v |-> e]

IsRaised(x) == "t" \in DOMAIN x /\ x.t = "raise"

(***************************************************************************)
(* Text helpers: Python's str methods on sequences of characters.          *)
(***************************************************************************)
UpperChars == <<"A", "B", "C", "D", "E", "F", "G", "H", "I", "J", "K", "L", "M",
                "N", "O", "P", "Q", "R", "S", "T", "U", "V", "W", "X", "Y", "Z">>

LowerChars == <<"a", "b", "c", "d", "e", "f", "g", "h", "i", "j", "k", "l", "m",
                "n", "o", "p", "q", "r", "s", "t", "u", "v", "w", "x", "y", "z">>

DecimalChars == <<"0", "1", "2", "3", "4", "5", "6", "7", "8", "9">>

\* Characters for which str.isdigit() is true although int() rejects them
\* (superscript two stands for the class).
SuperscriptDigits == {"²"}

LowerChar(c) ==
    IF \E i \in 1..26 : UpperChars[i] = c
    THEN LowerChars[CHOOSE i \in 1..26 : UpperChars[i] = c]
    ELSE c

\* str.lower()
Lower(s) == [i \in 1..Len(s) |-> LowerChar(s[i])]

IsDecimalChar(c) == \E i \in 1..10 : DecimalChars[i] = c

\* str.isdigit(): non-empty and every character is a digit character.
IsDigit(s) ==
    /\ Len(s) > 0
    /\ \A i \in 1..Len(s) : IsDecimalChar(s[i]) \/ s[i] \in SuperscriptDigits

DigitValue(c) == (CHOOSE i \in 1..10 : DecimalChars[i] = c) - 1

RECURSIVE DecimalValue(_)
DecimalValue(s) ==
    IF Len(s) = 0 THEN 0
    ELSE 10 * DecimalValue(SubSeq(s, 1, Len(s) - 1)) + DigitValue(s[Len(s)])

\* int(key) for a key that passed isdigit(): ValueError unless every
\* character is a decimal digit.
ParseInt(s) ==
    IF \A i \in 1..Len(s) : IsDecimalChar(s[i])
    THEN JInt(DecimalValue(s))
    ELSE Raised("ValueError")

RECURSIVE NatToText(_)
NatToText(n) ==
    IF n < 10 THEN <<DecimalChars[n + 1]>>
    ELSE NatToText(n \div 10) \o <<DecimalChars[(n % 10) + 1]>>

\* str(n) for an int
IntToText(n) == IF n < 0 THEN <<"-">> \o NatToText(0 - n) ELSE NatToText(n)

\* The index of the first "." of s at or after i, or 0.
RECURSIVE FindDot(_, _)
FindDot(s, i) ==
    IF i > Len(s) THEN 0
    ELSE IF s[i] = "." THEN i
    ELSE FindDot(s, i + 1)

\* path.split(".")
RECURSIVE Split(_)
Split(s) ==
    LET d == FindDot(s, 1)
    IN IF d = 0 THEN <<s>>
       ELSE <<SubSeq(s, 1, d - 1)>> \o Split(SubSeq(s, d + 1, Len(s)))

\* sub in s
Contains(s, sub) ==
    \E i \in 1..(Len(s) - Len(sub) + 1) : SubSeq(s, i, i + Len(sub) - 1) = sub

RECURSIVE Join(_, _)
Join(parts, sep) ==
    IF Len(parts) = 0 THEN <<>>
    ELSE IF Len(parts) = 1 THEN parts[1]
    ELSE parts[1] \o sep \o Join(Tail(parts), sep)

(***************************************************************************)
(* Python's str() / repr() and json.dumps() of a JSON value.               *)
(***************************************************************************)
RECURSIVE PyRepr(_)
PyRepr(x) ==
    CASE x.t = "null" -> <<"N", "o", "n", "e">>
      [] x.t = "bool" -> IF x.v THEN <<"T", "r", "u", "e">> ELSE <<"F", "a", "l", "s", "e">>
      [] x.t = "int" -> IntToText(x.v)
      [] x.t = "str" -> <<"'">> \o x.v \o <<"'">>
      [] x.t = "list" ->
            <<"[">> \o Join([i \in 1..Len(x.v) |-> PyRepr(x.v[i])], <<",", " ">>) \o <<"]">>
      [] x.t = "dict" ->
            <<"{">>
            \o Join([i \in 1..Len(x.v) |->
                        <<"'">> \o x.v[i].k \o <<"'", ":", " ">> \o PyRepr(x.v[i].v)],
                    <<",", " ">>)
            \o <<"}">>

\* str(x): a string is itself, everything else prints as its repr.
PyStr(x) == IF x.t = "str" THEN x.v ELSE PyRepr(x)

\* json.dumps(x) with the default separators.
RECURSIVE JsonDumps(_)
JsonDumps(x) ==
    CASE x.t = "null" -> <<"n", "u", "l", "l">>
      [] x.t = "bool" -> IF x.v THEN <<"t", "r", "u", "e">> ELSE <<"f", "a", "l", "s", "e">>
      [] x.t = "int" -> IntToText(x.v)
      [] x.t = "str" -> <<"\"">> \o x.v \o <<"\"">>
      [] x.t = "list" ->
            <<"[">> \o Join([i \in 1..Len(x.v) |-> JsonDumps(x.v[i])], <<",", " ">>) \o <<"]">>
      [] x.t = "dict" ->
            <<"{">>
            \o Join([i \in 1..Len(x.v) |->
                        <<"\"">> \o x.v[i].k \o <<"\"", ":", " ">> \o JsonDumps(x.v[i].v)],
                    <<",", " ">>)
            \o <<"}">>

\* bool(x): Python truthiness of a JSON value.
Truthy(x) ==
    CASE x.t = "null" -> FALSE
      [] x.t = "bool" -> x.v
      [] x.t = "int" -> x.v # 0
      [] x.t \in {"str", "list", "dict"} -> Len(x.v) > 0

(***************************************************************************)
(* dict operations.                                                        *)
(***************************************************************************)
HasKey(d, key) == \E i \in 1..Len(d.v) : d.v[i].k = key

\* d.get(key)
DictGet(d, key) ==
    IF HasKey(d, key)
    THEN d.v[CHOOSE i \in 1..Len(d.v) : d.v[i].k = key].v
    ELSE None

\* d[key] = val (an existing key keeps its position)
DictSet(d, key, val) ==
    IF HasKey(d, key)
    THEN JDict([i \in 1..Len(d.v) |-> IF d.v[i].k = key THEN KV(key, val) ELSE d.v[i]])
    ELSE JDict(Append(d.v, KV(key, val)))

\* list(d.keys())
DictKeys(d) == JList([i \in 1..Len(d.v) |-> JStr(d.v[i].k)])

(***************************************************************************)
(* _get_nested_value                                                       *)
(***************************************************************************)
\* One pass of the for loop over keys: the loop's early returns are folded
\* into the result (None, or the raise of int()).
RECURSIVE GetNestedLoop(_, _, _)
GetNestedLoop(current, keys, i) ==
    IF i > Len(keys) THEN current
    ELSE
      LET key == keys[i]
      IN IF current.t \notin {"dict", "list"} THEN None
         ELSE IF current.t = "list" /\ IsDigit(key) THEN
              LET idx == ParseInt(key)
              IN IF IsRaised(idx) THEN idx
                 ELSE IF 0 <= idx.v /\ idx.v < Len(current.v)
                      THEN LET nxt == current.v[idx.v + 1]
                           IN IF nxt = None THEN None
                              ELSE GetNestedLoop(nxt, keys, i + 1)
                      ELSE None
         ELSE IF current.t = "dict" THEN
              LET nxt == DictGet(current, key)
              IN IF nxt = None THEN None
                 ELSE GetNestedLoop(nxt, keys, i + 1)
         ELSE None

_get_nested_value(data, path) ==
    IF ~Truthy(data) \/ Len(path) = 0 THEN None
    ELSE GetNestedLoop(data, Split(path), 1)

(***************************************************************************)
(* Text constants of the code and of the inputs the model draws.           *)
(***************************************************************************)
T_not_allowed == <<"n", "o", "t", " ", "a", "l", "l", "o", "w", "e", "d">>
T_invalid_body == <<"I", "n", "v", "a", "l", "i", "d", " ", "b", "o", "d", "y", " ", "J", "S", "O", "N", ":", " ">>
T_expecting_value == <<"E", "x", "p", "e", "c", "t", "i", "n", "g", " ", "v", "a", "l", "u", "e">>
T_done_field_q == <<"d", "o", "n", "e", "_", "f", "i", "e", "l", "d", " ", "'">>
T_not_found == <<"'", " ", "n", "o", "t", " ", "f", "o", "u", "n", "d", " ", "i", "n", " ", "r", "e", "s", "p", "o", "n", "s", "e", ".", " ", "A", "v", "a", "i", "l", "a", "b", "l", "e", " ", "k", "e", "y", "s", ":", " ">>
T_max_polls == <<"m", "a", "x", "_", "p", "o", "l", "l", "s", " ", "(">>
T_exceeded_last == <<")", " ", "e", "x", "c", "e", "e", "d", "e", "d", ".", " ", "L", "a", "s", "t", " ">>
T_value == <<" ", "v", "a", "l", "u", "e", ":", " ">>
T_expected == <<" ", "(", "e", "x", "p", "e", "c", "t", "e", "d", ":", " ">>
T_close == <<")">>
T_expecting_name == <<"E", "x", "p", "e", "c", "t", "i", "n", "g", " ", "p", "r", "o", "p", "e", "r", "t", "y", " ", "n", "a", "m", "e", " ", "e", "n", "c", "l", "o", "s", "e", "d", " ", "i", "n", " ", "d", "o", "u", "b", "l", "e", " ", "q", "u", "o", "t", "e", "s">>
T_connection_error == <<"C", "o", "n", "n", "e", "c", "t", "i", "o", "n", " ", "e", "r", "r", "o", "r">>

K_retry == <<"r", "e", "t", "r", "y">>
K_next == <<"n", "e", "x", "t">>
K_trips == <<"t", "r", "i", "p", "s">>
K_status == <<"s", "t", "a", "t", "u", "s">>
K_polling == <<"p", "o", "l", "l", "i", "n", "g">>
K_count == <<"c", "o", "u", "n", "t">>
K_query == <<"q", "u", "e", "r", "y">>
K_id == <<"i", "d">>
N_poll_result == <<"p", "o", "l", "l", "_", "r", "e", "s", "u", "l", "t">>
N_data == <<"d", "a", "t", "a">>

P_hotels == <<"/", "a", "p", "i", "/", "b", "o", "o", "k", "i", "n", "g", "/", "s", "e", "a", "r", "c", "h", "/", "v", "1", "/", "h", "o", "t", "e", "l", "s">>
P_booking_search == <<"/", "a", "p", "i", "/", "b", "o", "o", "k", "i", "n", "g", "/", "s", "e", "a", "r", "c", "h">>
P_v1_search == <<"/", "a", "p", "i", "/", "v", "1", "/", "s", "e", "a", "r", "c", "h">>
P_api_search == <<"/", "a", "p", "i", "/", "s", "e", "a", "r", "c", "h">>
P_users == <<"/", "u", "s", "e", "r", "s">>
G_booking_search_any == <<"/", "a", "p", "i", "/", "b", "o", "o", "k", "i", "n", "g", "/", "s", "e", "a", "r", "c", "h", "/", "*">>
G_api_any_search == <<"/", "a", "p", "i", "/", "*", "/", "s", "e", "a", "r", "c", "h">>

F_retry_next == <<"r", "e", "t", "r", "y", ".", "n", "e", "x", "t">>
F_status == <<"s", "t", "a", "t", "u", "s">>
F_trips_sup2 == <<"t", "r", "i", "p", "s", ".", "²">>
V_zero == <<"0">>
V_done == <<"d", "o", "n", "e">>
V_none == <<"n", "o", "n", "e">>

(***************************************************************************)
(* json.loads on the caller-supplied JSON fragments.  The fragments the    *)
(* model draws are fixed source texts; JsonLoads gives what the parser     *)
(* returns for each: the parsed value, or the JSONDecodeError message.     *)
(***************************************************************************)
Parsed(val) == [ok |-> TRUE, value |-> val]
DecodeError(msg) == [ok |-> FALSE, msg |-> msg]

JsonLoads(text) ==
    CASE text = "{\"polling\": {\"count\": 0}}" ->
            Parsed(JDict(<<KV(K_polling, JDict(<<KV(K_count, JInt(0))>>))>>))
      [] text = "{\"polling\": {\"count\": 1}}" ->
            Parsed(JDict(<<KV(K_polling, JDict(<<KV(K_count, JInt(1))>>))>>))
      [] text = "{\"query\": \"test\"}" ->
            Parsed(JDict(<<KV(K_query, JStr(<<"t", "e", "s", "t">>))>>))
      [] text = "{\"polling\": 5}" ->
            Parsed(JDict(<<KV(K_polling, JInt(5))>>))
      [] text = "{}" -> Parsed(JDict(<<>>))
      [] text = "not-json" -> DecodeError(T_expecting_value)
      [] text = "{bad" -> DecodeError(T_expecting_name)

(***************************************************************************)
(* The request capability (api_agent/rest/client.py): verb policy, then    *)
(* the transport.  `net` is what the transport would answer.               *)
(***************************************************************************)
\* fnmatch-style glob: "*" matches any run of characters, "?" exactly one.
RECURSIVE GlobMatch(_, _)
GlobMatch(pat, s) ==
    IF Len(pat) = 0 THEN Len(s) = 0
    ELSE IF pat[1] = "*"
         THEN GlobMatch(Tail(pat), s) \/ (Len(s) > 0 /\ GlobMatch(pat, Tail(s)))
    ELSE IF pat[1] = "?"
         THEN Len(s) > 0 /\ GlobMatch(Tail(pat), Tail(s))
    ELSE Len(s) > 0 /\ s[1] = pat[1] /\ GlobMatch(Tail(pat), Tail(s))

_is_path_allowed(path, patterns) ==
    \E i \in 1..Len(patterns) : GlobMatch(patterns[i], path)

UnsafeMethods == {"POST", "PUT", "PATCH", "DELETE"}

\* TRUE when the verb policy lets the call reach the transport.
PolicyPermits(method, path, allow_unsafe_paths) ==
    method = "GET" \/ _is_path_allowed(path, allow_unsafe_paths)

\* `wire` tells whether the call reached the transport; `result` is what the
\* caller gets back.
execute_request(method, path, allow_unsafe_paths, net) ==
    IF PolicyPermits(method, path, allow_unsafe_paths)
    THEN [wire |-> TRUE, result |-> net]
    ELSE [wire |-> FALSE, result |-> [success |-> FALSE, error |-> T_not_allowed]]

(***************************************************************************)
(* Table extraction and context truncation (api_agent/executor.py).        *)
(***************************************************************************)
\* The character budget of one tool response.
MAX_CONTEXT_CHARS == 40

FirstListIndex(d) == CHOOSE i \in 1..Len(d.v) : d.v[i].v.t = "list" /\ \A j \in 1..(i - 1) : d.v[j].v.t # "list"

ExtractTables_FirstNonEmpty(data, name) ==
    CASE data.t = "list" -> JDict(<<KV(name, data)>>)
      [] data.t = "dict" ->
            LET lists == SelectSeq(data.v, LAMBDA item : item.v.t = "list" /\ Len(item.v.v) > 0)
            IN IF Len(lists) > 0
               THEN JDict(<<KV(name, lists[1].v)>>)
               ELSE JDict(<<KV(name, JList(<<data>>))>>)
      [] OTHER -> JDict(<<>>)

\* extract_tables_from_response(data, name)[0]: the tables, as a dict.
ExtractTables(data, name) ==
    CASE data.t = "list" -> JDict(<<KV(name, data)>>)
      [] data.t = "dict" ->
            IF \E i \in 1..Len(data.v) : data.v[i].v.t = "list"
            THEN JDict(<<KV(name, data.v[FirstListIndex(data)].v)>>)
            ELSE JDict(<<KV(name, JList(<<data>>))>>)
      [] OTHER -> JDict(<<>>)

T_BIGINT == <<"B", "I", "G", "I", "N", "T">>
T_VARCHAR == <<"V", "A", "R", "C", "H", "A", "R">>
T_BOOLEAN == <<"B", "O", "O", "L", "E", "A", "N">>
T_NULL == <<"N", "U", "L", "L">>
T_STRUCT == <<"S", "T", "R", "U", "C", "T", "(">>
T_hint_use == <<"U", "s", "e", " ", "s", "q", "l", "_", "q", "u", "e", "r", "y", " ", "t", "o", " ", "q", "u", "e", "r", "y", " ", "t", "a", "b", "l", "e", " ", "'">>
T_hint_rows == <<"'", " ", "f", "o", "r", " ", "a", "l", "l", " ", "r", "o", "w", "s">>

\* The storage-type label inferred for one value (struct fields recursively).
RECURSIVE TypeLabel(_)
TypeLabel(x) ==
    CASE x.t = "int" -> T_BIGINT
      [] x.t = "str" -> T_VARCHAR
      [] x.t = "bool" -> T_BOOLEAN
      [] x.t = "null" -> T_NULL
      [] x.t = "list" ->
            (IF Len(x.v) = 0 THEN T_NULL ELSE TypeLabel(x.v[1])) \o <<"[", "]">>
      [] x.t = "dict" ->
            T_STRUCT
            \o Join([i \in 1..Len(x.v) |-> x.v[i].k \o <<" ">> \o TypeLabel(x.v[i].v)],
                    <<",", " ">>)
            \o <<")">>

\* The column names of a dataset, in order of first appearance.
RECURSIVE ColumnNames(_, _, _)
ColumnNames(rows, i, seen) ==
    IF i > Len(rows) THEN seen
    ELSE LET rec == rows[i]
             keys == IF rec.t = "dict" THEN [j \in 1..Len(rec.v) |-> rec.v[j].k] ELSE <<>>
             fresh == SelectSeq(keys, LAMBDA k : \A j \in 1..Len(seen) : seen[j] # k)
         IN ColumnNames(rows, i + 1, seen \o fresh)

\* The first non-null value a column takes.
ColumnValue(rows, key) ==
    LET holds(i) == rows[i].t = "dict" /\ DictGet(rows[i], key) # None
    IN IF \E i \in 1..Len(rows) : holds(i)
       THEN DictGet(rows[CHOOSE i \in 1..Len(rows) :
                             holds(i) /\ \A j \in 1..(i - 1) : ~holds(j)], key)
       ELSE None

\* summarize(dataset, name) -> {rows, schema, hint}
get_table_schema_summary(dataset, name) ==
    LET cols == ColumnNames(dataset.v, 1, <<>>)
    IN [rows |-> Len(dataset.v),
        schema |-> Join([i \in 1..Len(cols) |->
                            cols[i] \o <<" ">> \o TypeLabel(ColumnValue(dataset.v, cols[i]))],
                        <<",", " ">>),
        hint |-> T_hint_use \o name \o T_hint_rows]

\* A mapping without a sequence-valued direct key is wrapped and summarised.
WrapsMapping(data) ==
    data.t = "dict" /\ \A i \in 1..Len(data.v) : data.v[i].v.t # "list"

\* extract(responseBody, name) -> (datasets, summary or None)
extract_tables_from_response(data, name) ==
    [tables |-> ExtractTables(data, name),
     schema |-> IF WrapsMapping(data)
                THEN get_table_schema_summary(JList(<<data>>), name)
                ELSE None]

WithinBudget_Exclusive(dataset, max_chars) == Len(JsonDumps(dataset)) < max_chars

\* The serialized size of the dataset is at most max_chars.
WithinBudget(dataset, max_chars) == Len(JsonDumps(dataset)) <= max_chars

TruncationSummary_OverShown(dataset, n, name) ==
    get_table_schema_summary(JList(SubSeq(dataset.v, 1, n)), name)

\* The summary attached to a truncated view describes the full dataset.
TruncationSummary(dataset, n, name) == get_table_schema_summary(dataset, name)

\* The longest prefix of rows whose serialization stays within max_chars.
RECURSIVE FittingPrefix(_, _, _)
FittingPrefix(rows, n, max_chars) ==
    IF n = 0 THEN 0
    ELSE IF Len(JsonDumps(JList(SubSeq(rows, 1, n)))) <= max_chars THEN n
    ELSE FittingPrefix(rows, n - 1, max_chars)

\* A budget that triggers truncation returns the fitting prefix together with
\* the Schema Summary of the full dataset.
truncate_for_context(dataset, name, max_chars) ==
    IF WithinBudget(dataset, max_chars)
    THEN [truncated |-> FALSE, table |-> name, rows |-> Len(dataset.v), data |-> dataset]
    ELSE LET n == FittingPrefix(dataset.v, Len(dataset.v), max_chars)
             summary == TruncationSummary(dataset, n, name)
         IN [truncated |-> TRUE, table |-> name, rows |-> Len(dataset.v),
             showing |-> n, data |-> JList(SubSeq(dataset.v, 1, n)),
             schema |-> summary.schema, hint |-> summary.hint]

\* results.update(tables)
RECURSIVE DictUpdate(_, _, _)
DictUpdate(d, other, i) ==
    IF i > Len(other.v) THEN d
    ELSE DictUpdate(DictSet(d, other.v[i].k, other.v[i].v), other, i + 1)

(***************************************************************************)
(* Inputs the model draws.                                                 *)
(***************************************************************************)
\* (method, path) of an invocation.
Targets ==
    { <<"GET", P_api_search>>,
      <<"POST", P_hotels>>, <<"POST", P_booking_search>>,
      <<"POST", P_v1_search>>, <<"POST", P_api_search>>,
      <<"PUT", P_hotels>>, <<"PATCH", P_v1_search>>, <<"DELETE", P_booking_search>> }

\* ctx.allow_unsafe_paths of the question.
AllowLists == { <<>>, <<G_booking_search_any>>, <<G_api_any_search>> }

DoneFields == {F_retry_next, F_status, F_trips_sup2}
DoneValues == {V_zero, V_done, V_none}
BodyTexts ==
    { "", "not-json", "{\"polling\": {\"count\": 0}}", "{\"polling\": {\"count\": 1}}",
      "{\"query\": \"test\"}", "{\"polling\": 5}" }
PathParamTexts == {"", "{bad"}
QueryParamTexts == {"", "{bad"}
TableNames == {N_poll_result}

D_next2 ==
    JDict(<<KV(K_retry, JDict(<<KV(K_next, JInt(2))>>)),
            KV(K_status, JStr(<<"P", "e", "n", "d", "i", "n", "g">>))>>)
D_next1 ==
    JDict(<<KV(K_retry, JDict(<<KV(K_next, JInt(1))>>)), KV(K_trips, JList(<<>>))>>)
D_next0 ==
    JDict(<<KV(K_retry, JDict(<<KV(K_next, JInt(0))>>)),
            KV(K_trips, JList(<<JDict(<<KV(K_id, JInt(1))>>)>>)),
            KV(K_status, JStr(<<"D", "O", "N", "E">>))>>)
D_null == JDict(<<KV(K_status, None), KV(K_trips, JList(<<>>))>>)

NetOk(d) == [success |-> TRUE, data |-> d]
NetFail == [success |-> FALSE, error |-> T_connection_error]

\* What the transport may answer to one request.
NetAnswers == {NetOk(D_next2), NetOk(D_next1), NetOk(D_next0), NetOk(D_null), NetFail}

(***************************************************************************)
(* State.                                                                  *)
(***************************************************************************)
VARIABLES
    ctx_allow,      \* ctx.allow_unsafe_paths
    rest_calls,     \* _rest_calls: the question's call log
    query_results,  \* _query_results: the Dataset Registry
    last_result,    \* _last_result[0]: the last-full-result holder
    pc,             \* "idle", "request", "sleep" or "returned"
    method, path, done_field, done_value, name,   \* arguments of the invocation
    body, path_params, query_params,   \* the JSON fragments, as the caller wrote them
    body_dict,      \* the parsed body, mutated between attempts
    attempt,        \* the loop counter
    current,        \* last value extracted at done_field
    ret,            \* what the invocation returned (or the exception it raised)
    outcome,        \* the return site taken
    requests,       \* calls made to execute_request by this invocation
    answers,        \* what execute_request returned to each of them
    slept,          \* number of inter-attempt delays performed
    log_base,       \* length of the call log when the invocation started
    fn_in, fn_out,  \* argument and result of a direct call of a pure function
    api_type,       \* ctx.api_type: which agent serves the question
    stage,          \* "idle", "running", "answered" or "rejected": where the question stands
    turns,          \* tool invocations the agent run has made
    graphql_queries,\* _graphql_queries: the GraphQL agent's call log
    raw_schema,     \* _raw_schema: the Raw Schema Blob
    answer,         \* what process_rest_query / process_query returned
    tool_ret,       \* what the last tool invocation returned (or raised)
    writes,         \* history: (name, response body) of each invocation that stored a dataset
    ending,         \* history: how the processing ended (the exception's class if it raised)
    issued,         \* history: the requests the question's tools issued, in issue order
    heap,           \* the mutable containers, by identity
    ctxs,           \* per unit of work: the ContextVar bindings of its context
    units           \* per unit of work: position, tool call in flight, outcome

vars == <<ctx_allow, rest_calls, query_results, last_result, pc, method, path,
          done_field, done_value, name, body, path_params, query_params, body_dict,
          attempt, current, ret, outcome, requests, answers, slept, log_base,
          fn_in, fn_out, api_type, stage, turns, graphql_queries, raw_schema, answer,
          tool_ret, writes, ending, issued, heap, ctxs, units>>

question == <<api_type, stage, turns, graphql_queries, raw_schema, answer, tool_ret,
              writes, ending, issued>>

tasks == <<heap, ctxs, units>>

session == <<rest_calls, query_results, last_result>>

NoRet == [t |-> "none"]

\* The call-log record rest_call appends, and the state one successful
\* rest_call("GET", "/users") leaves behind.
EarlierCall ==
    [method |-> "GET", path |-> P_users, path_params |-> "", query_params |-> "", body |-> ""]
EarlierRows == JList(<<JDict(<<KV(K_id, JInt(1))>>)>>)

\* process_rest_query has reset the per-question storage; the agent either
\* calls poll_until_done first or after one successful rest_call.
PollIdle ==
    /\ pc = "idle"
    /\ method = "" /\ path = <<>> /\ done_field = <<>> /\ done_value = <<>>
    /\ name = <<>>
    /\ body = "" /\ path_params = "" /\ query_params = ""
    /\ body_dict = JDict(<<>>)
    /\ attempt = 0
    /\ current = None
    /\ ret = NoRet
    /\ outcome = "NONE"
    /\ requests = <<>>
    /\ answers = <<>>
    /\ slept = 0
    /\ log_base = Len(rest_calls)

\* No question is being processed at the level of process_*_query.
\* The Raw Schema Blob as lines: not set, the one an earlier question left,
\* and the ones this question's fetch gives.
NoSchema == <<>>
EarlierSchema == <<"type Booking {", "  id: ID", "}">>
OpenApiSchema == <<"paths:", "  /users:">>
IntrospectionSchema == <<"type Trip {", "  id: ID", "}">>

QuestionIdle ==
    /\ api_type = "rest"
    /\ stage = "idle"
    /\ turns = 0
    /\ graphql_queries = <<>>
    /\ raw_schema = NoSchema
    /\ answer = NoRet
    /\ tool_ret = NoRet
    /\ writes = <<>>
    /\ ending = "none"
    /\ issued = <<>>

\* No unit of work is tracked by identity.
TasksIdle == heap = <<>> /\ ctxs = <<>> /\ units = <<>>

Init ==
    /\ ctx_allow \in AllowLists
    /\ \/ /\ rest_calls = <<>>
          /\ query_results = JDict(<<>>)
          /\ last_result = None
       \/ /\ rest_calls = <<EarlierCall>>
          /\ query_results = JDict(<<KV(N_data, EarlierRows)>>)
          /\ last_result = EarlierRows
    /\ PollIdle
    /\ fn_in = NoRet
    /\ fn_out = NoRet
    /\ QuestionIdle
    /\ TasksIdle

(***************************************************************************)
(* poll_until_done, piece by piece.                                        *)
(***************************************************************************)
\* json.loads(x) if x else None
ParseOptional(text) == IF text = "" THEN Parsed(None) ELSE JsonLoads(text)

\* json.loads(body) if body else {}
ParseBody(text) == IF text = "" THEN Parsed(JDict(<<>>)) ELSE JsonLoads(text)

LoopContinues_OffByOne(n) == n <= MAX_POLLS

\* while attempt < max_polls
LoopContinues(n) == n < MAX_POLLS

\* body=body_dict if body_dict else None
RequestBody(bd) == IF Truthy(bd) THEN bd ELSE None

\* "body": json.dumps(body_dict) if body_dict else ""
LoggedBody(bd) == IF Truthy(bd) THEN JsonDumps(bd) ELSE <<>>

\* The record appended to the call log for one attempt.
PollRecord(m, p, bd, n) ==
    [method |-> m, path |-> p, body |-> LoggedBody(bd), poll_attempt |-> n]

PollExecute_NoAllowList(m, p, allow, net) == execute_request(m, p, <<>>, net)

\* execute_request(..., allow_unsafe_paths=list(ctx.allow_unsafe_paths))
PollExecute(m, p, allow, net) == execute_request(m, p, allow, net)

FieldMissing_AnyAttempt(cur, n) == cur = None

\* current is None and attempt == 1
FieldMissing(cur, n) == cur = None /\ n = 1

IsDone_CaseSensitive(cur, dv) == PyStr(cur) = dv

\* str(current).lower() == done_value.lower()
IsDone(cur, dv) == Lower(PyStr(cur)) = Lower(dv)

\* keys = list(data.keys()) if isinstance(data, dict) else []
AvailableKeys(data) == IF data.t = "dict" THEN DictKeys(data) ELSE JList(<<>>)

FieldMissingError(df, data) ==
    T_done_field_q \o df \o T_not_found \o PyStr(AvailableKeys(data))

ExhaustedError(df, cur, dv) ==
    T_max_polls \o IntToText(MAX_POLLS) \o T_exceeded_last \o df \o T_value
    \o PyStr(cur) \o T_expected \o dv \o T_close

IncrementPollingCount_Truthy(bd) ==
    IF ~HasKey(bd, K_polling) THEN bd
    ELSE LET polling == DictGet(bd, K_polling)
         IN IF polling.t # "dict" THEN Raised("AttributeError")
            ELSE LET count == DictGet(polling, K_count)
                 IN IF ~Truthy(count) THEN bd
                    ELSE IF count.t = "int"
                         THEN DictSet(bd, K_polling, DictSet(polling, K_count, JInt(count.v + 1)))
                    ELSE Raised("TypeError")

\* if body_dict.get("polling", {}).get("count") is not None:
\*     body_dict["polling"]["count"] += 1
IncrementPollingCount(bd) ==
    IF ~HasKey(bd, K_polling) THEN bd
    ELSE LET polling == DictGet(bd, K_polling)
         IN IF polling.t # "dict" THEN Raised("AttributeError")
            ELSE LET count == DictGet(polling, K_count)
                 IN IF count = None THEN bd
                    ELSE IF count.t = "int"
                         THEN DictSet(bd, K_polling, DictSet(polling, K_count, JInt(count.v + 1)))
                    ELSE IF count.t = "bool"
                         THEN DictSet(bd, K_polling,
                                      DictSet(polling, K_count, JInt((IF count.v THEN 1 ELSE 0) + 1)))
                    ELSE Raised("TypeError")

\* Lines 318-323: the report of a body that is not JSON.
MalformedBodyReport(msg) == [success |-> FALSE, error |-> T_invalid_body \o msg]

FailureReport_ZeroBased(result, n) ==
    [success |-> FALSE, error |-> result.error, attempt |-> n - 1]

\* Lines 359-365: the report of a failed request.
FailureReport(result, n) == [success |-> FALSE, error |-> result.error, attempt |-> n]

Return(kind, value) ==
    /\ pc' = "returned"
    /\ outcome' = kind
    /\ ret' = value

\* Lines 313-330: parse the JSON fragments, then enter the loop.
PollInvoke(target, df, dv, bd, pp, qp, nm) ==
    /\ pc = "idle"
    /\ log_base' = Len(rest_calls)
    /\ method' = target[1]
    /\ path' = target[2]
    /\ done_field' = df
    /\ done_value' = dv
    /\ name' = nm
    /\ body' = bd
    /\ path_params' = pp
    /\ query_params' = qp
    /\ UNCHANGED <<ctx_allow, session, requests, answers, slept, fn_in, fn_out, question, tasks>>
    /\ IF ~ParseOptional(pp).ok \/ ~ParseOptional(qp).ok
       THEN /\ Return("RAISED", Raised("JSONDecodeError"))
            /\ UNCHANGED <<body_dict, attempt, current>>
       ELSE IF ~ParseBody(bd).ok
       THEN /\ Return("MALFORMED_BODY", MalformedBodyReport(ParseBody(bd).msg))
            /\ UNCHANGED <<body_dict, attempt, current>>
       ELSE /\ body_dict' = ParseBody(bd).value
            /\ attempt' = 0
            /\ current' = None
            /\ IF LoopContinues(0)
               THEN pc' = "request" /\ UNCHANGED <<ret, outcome>>
               ELSE Return("EXHAUSTED",
                           [success |-> FALSE, error |-> ExhaustedError(df, None, dv),
                            attempts |-> 0])

\* Lines 332-402: one attempt, from the request to the verdict on its response.
PollRequest(net) ==
    /\ pc = "request"
    /\ LET n == attempt + 1
           call == PollExecute(method, path, ctx_allow, net)
           result == call.result
           cur == _get_nested_value(result.data, done_field)
           tables == ExtractTables(result.data, name)
           stored == DictGet(tables, name)
           rows == IF result.data.t = "list" THEN result.data ELSE JList(<<result.data>>)
       IN /\ attempt' = n
          /\ requests' = Append(requests,
                                [method |-> method, path |-> path,
                                 body |-> RequestBody(body_dict),
                                 wire |-> call.wire])
          /\ answers' = Append(answers, result)
          /\ rest_calls' = Append(rest_calls, PollRecord(method, path, body_dict, n))
          /\ UNCHANGED <<ctx_allow, method, path, done_field, done_value, name, body,
                         path_params, query_params, body_dict, slept, log_base,
                         fn_in, fn_out, question, tasks>>
          /\ IF ~result.success
             THEN /\ Return("REQUEST_FAILED", FailureReport(result, n))
                  /\ UNCHANGED <<current, query_results, last_result>>
             ELSE IF IsRaised(cur)
             THEN /\ Return("RAISED", cur)
                  /\ UNCHANGED <<current, query_results, last_result>>
             ELSE /\ current' = cur
                  /\ IF FieldMissing(cur, n)
                     THEN /\ Return("FIELD_MISSING",
                                    [success |-> FALSE,
                                     error |-> FieldMissingError(done_field, result.data)])
                          /\ UNCHANGED <<query_results, last_result>>
                     ELSE IF IsDone(cur, done_value)
                     THEN /\ query_results' = DictUpdate(query_results, tables, 1)
                          /\ last_result' = IF stored # None THEN stored ELSE last_result
                          /\ Return("DONE",
                                    [success |-> TRUE]
                                    @@ truncate_for_context(rows, name, MAX_CONTEXT_CHARS)
                                    @@ [attempts |-> n])
                     ELSE /\ pc' = "sleep"
                          /\ UNCHANGED <<ret, outcome, query_results, last_result>>

\* Lines 404-416: the delay, the polling.count increment, the loop test and,
\* when the loop ends, the exhaustion report.
PollSleep ==
    /\ pc = "sleep"
    /\ slept' = slept + 1
    /\ UNCHANGED <<ctx_allow, session, method, path, done_field, done_value, name,
                   body, path_params, query_params, attempt, current, requests, answers,
                   log_base, fn_in, fn_out, question, tasks>>
    /\ LET bd == IncrementPollingCount(body_dict)
       IN IF IsRaised(bd)
          THEN /\ Return("RAISED", bd)
               /\ UNCHANGED body_dict
          ELSE /\ body_dict' = bd
               /\ IF LoopContinues(attempt)
                  THEN pc' = "request" /\ UNCHANGED <<ret, outcome>>
                  ELSE Return("EXHAUSTED",
                              [success |-> FALSE,
                               error |-> ExhaustedError(done_field, current, done_value),
                               attempts |-> attempt])

Invoke ==
    \E target \in Targets, df \in DoneFields, dv \in DoneValues, bd \in BodyTexts,
       pp \in PathParamTexts, qp \in QueryParamTexts, nm \in TableNames :
        PollInvoke(target, df, dv, bd, pp, qp, nm)

Request == \E net \in NetAnswers : PollRequest(net)

Next == Invoke \/ Request \/ PollSleep

Spec == Init /\ [][Next]_vars

\* The event loop runs every awaited step of an invocation to completion.
FairSpec == Spec /\ WF_vars(Request) /\ WF_vars(PollSleep)

(***************************************************************************)
(* Properties of poll_until_done.                                          *)
(***************************************************************************)
\* The value attempt i found at done_field.
Extracted(i) == _get_nested_value(answers[i].data, done_field)

\* Attempt i succeeded and the string form of what it found, lowercased,
\* is the lowercased done_value.
StrMatch(i) ==
    /\ answers[i].success
    /\ ~IsRaised(Extracted(i))
    /\ Lower(PyStr(Extracted(i))) = Lower(done_value)

\* ... and attempt i found a value at done_field.
ValueMatch(i) == StrMatch(i) /\ Extracted(i) # None

\* The records this invocation appended to the call log.
OwnRecords == SubSeq(rest_calls, log_base + 1, Len(rest_calls))

\* C1: the invocation ends DONE at the first attempt whose done_field value,
\* as a lowercased string, equals the lowercased done_value, and not before:
\* success with attempts = k, exactly k requests, none after.
C1_DoneAtFirstMatch ==
    /\ \A k \in 1..Len(answers) :
          ValueMatch(k) =>
            /\ pc = "returned" /\ outcome = "DONE"
            /\ attempt = k /\ Len(requests) = k
            /\ ret.success /\ ret.attempts = k
    /\ outcome = "DONE" =>
          /\ Len(requests) = attempt /\ Len(answers) = attempt
          /\ StrMatch(attempt)
          /\ \A j \in 1..(attempt - 1) : ~StrMatch(j)

\* retry.next = 2, 1, 0 with done_value "0": DONE at attempt 3.
C1_Witness ==
    /\ outcome = "DONE" /\ attempt = 3
    /\ done_field = F_retry_next /\ done_value = V_zero
    /\ answers = <<NetOk(D_next2), NetOk(D_next1), NetOk(D_next0)>>

ListedOutcomes == {"DONE", "FIELD_MISSING", "REQUEST_FAILED", "EXHAUSTED", "MALFORMED_BODY"}

\* C2: every invocation ends in one of DONE, FIELD_MISSING, REQUEST_FAILED,
\* EXHAUSTED or the malformed-body error, after at most MAX_POLLS requests.
C2_EndsInListedOutcome ==
    pc = "returned" => outcome \in ListedOutcomes /\ Len(requests) <= MAX_POLLS

\* C3: when every response succeeds with a done_field value that never
\* matches, the invocation issues MAX_POLLS requests, logs MAX_POLLS records
\* and ends EXHAUSTED, reporting the last value, the path and the expected value.
C3_ExhaustedAfterMaxPolls ==
    ( /\ pc = "returned"
      /\ Len(answers) >= 1
      /\ \A i \in 1..Len(answers) :
            /\ answers[i].success
            /\ ~IsRaised(Extracted(i)) /\ Extracted(i) # None
            /\ ~StrMatch(i) )
    => /\ outcome = "EXHAUSTED"
       /\ Len(requests) = MAX_POLLS
       /\ Len(OwnRecords) = MAX_POLLS
       /\ ~ret.success /\ ret.attempts = MAX_POLLS
       /\ Contains(ret.error, PyStr(Extracted(Len(answers))))
       /\ Contains(ret.error, done_field)
       /\ Contains(ret.error, done_value)

\* C4: a done_field value missing from the first response ends the invocation
\* FIELD_MISSING after one request, the error naming the path and the keys of
\* the response; a value missing on a later attempt never does.
C4_FieldMissingOnFirstAttemptOnly ==
    /\ ( Len(answers) >= 1 /\ answers[1].success /\ Extracted(1) = None )
       => /\ pc = "returned" /\ outcome = "FIELD_MISSING"
          /\ Len(requests) = 1
          /\ ~ret.success
          /\ Contains(ret.error, done_field)
          /\ \A j \in 1..Len(answers[1].data.v) :
                Contains(ret.error, answers[1].data.v[j].k)
    /\ outcome = "FIELD_MISSING"
       => Len(answers) = 1 /\ answers[1].success /\ Extracted(1) = None
    /\ \A k \in 2..Len(answers) :
          (answers[k].success /\ Extracted(k) = None) => outcome # "FIELD_MISSING"

C4_Witness ==
    /\ outcome = "FIELD_MISSING"
    /\ done_field = F_retry_next
    /\ answers = <<NetOk(D_null)>>
    /\ Contains(ret.error, K_status) /\ Contains(ret.error, K_trips)

\* C5: a request that fails on attempt k (a blocked verb included) ends the
\* invocation at once: success=false with attempt = k and the underlying
\* error, and no further request.
C5_RequestFailureIsTerminal ==
    \A k \in 1..Len(answers) :
        ~answers[k].success =>
          /\ k = Len(answers) /\ Len(requests) = k
          /\ pc = "returned" /\ outcome = "REQUEST_FAILED"
          /\ ret = [success |-> FALSE, error |-> answers[k].error, attempt |-> k]

\* A transport failure on the second of MAX_POLLS attempts.
C5_Witness ==
    /\ outcome = "REQUEST_FAILED" /\ attempt = 2 /\ attempt < MAX_POLLS
    /\ answers[2] = NetFail

\* C6: one invocation appends at most MAX_POLLS records to the call log, and
\* they carry the attempt indices 1, 2, ..., k in order.
C6_RecordsBoundedAndNumbered ==
    /\ Len(OwnRecords) <= MAX_POLLS
    /\ \A i \in 1..Len(OwnRecords) : OwnRecords[i].poll_attempt = i
    /\ Len(OwnRecords) = attempt

\* A full run of MAX_POLLS attempts after an earlier call of the question.
C6_Witness == Len(OwnRecords) = MAX_POLLS /\ log_base = 1 /\ outcome = "EXHAUSTED"

\* polling.count of a body, or None.
PollingCount(b) ==
    IF b.t = "dict" /\ HasKey(b, K_polling) /\ DictGet(b, K_polling).t = "dict"
    THEN DictGet(DictGet(b, K_polling), K_count)
    ELSE None

\* C7: with polling.count = c in the body, attempt k sends c + (k - 1) and its
\* record keeps the body as sent; a body without polling.count is sent
\* unchanged on every attempt.
C7_PollingCountIncrements ==
    \A k \in 1..Len(requests) :
        LET b0 == ParseBody(body).value
            c == PollingCount(b0)
        IN IF c # None
           THEN /\ PollingCount(requests[k].body) = JInt(c.v + (k - 1))
                /\ OwnRecords[k].body = JsonDumps(requests[k].body)
           ELSE /\ requests[k].body = (IF Len(b0.v) = 0 THEN None ELSE b0)
                /\ OwnRecords[k].body = (IF Len(b0.v) = 0 THEN <<>> ELSE JsonDumps(b0))

\* count 1, 2, 3 over three attempts.
C7_Witness ==
    /\ Len(requests) = 3
    /\ body = "{\"polling\": {\"count\": 1}}"
    /\ PollingCount(requests[1].body) = JInt(1)
    /\ PollingCount(requests[3].body) = JInt(3)
    /\ PollingCount(body_dict) = JInt(4)

\* C8: a body that is not valid JSON fails fast with the malformed-body
\* error: no request, no record, no change of the session state.
C8_MalformedBodyFailsFast ==
    (pc = "returned" /\ ~ParseBody(body).ok)
    => /\ outcome = "MALFORMED_BODY"
       /\ ~ret.success
       /\ Contains(ret.error, T_invalid_body)
       /\ requests = <<>>
       /\ Len(rest_calls) = log_base

\* C10: the verb policy is applied on every attempt: GET always reaches the
\* transport, an unsafe verb only when the path matches an allowlist pattern;
\* a blocked call is reported as a structured "not allowed" failure.
C10_VerbPolicyOnEveryAttempt ==
    \A i \in 1..Len(requests) :
        LET r == requests[i]
        IN /\ r.method = "GET" => r.wire
           /\ r.method \in UnsafeMethods
              => (r.wire <=> \E j \in 1..Len(ctx_allow) : GlobMatch(ctx_allow[j], r.path))
           /\ (r.method = "POST" /\ ctx_allow = <<G_booking_search_any>>)
              => /\ r.path = P_hotels => r.wire
                 /\ r.path = P_booking_search => ~r.wire
           /\ (r.method = "POST" /\ ctx_allow = <<G_api_any_search>>)
              => /\ r.path = P_v1_search => r.wire
                 /\ r.path = P_api_search => ~r.wire
           /\ ~r.wire
              => /\ answers[i].success = FALSE
                 /\ Contains(answers[i].error, T_not_allowed)
                 /\ outcome = "REQUEST_FAILED" /\ ~ret.success
                 /\ i = Len(requests)

\* An allowed POST still passes the policy on its third attempt.
C10_Witness ==
    /\ Len(requests) = 3
    /\ requests[3].method = "POST" /\ requests[3].path = P_hotels /\ requests[3].wire

(***************************************************************************)
(* _get_nested_value called directly, on arguments drawn from GetData and  *)
(* GetPaths.                                                               *)
(***************************************************************************)
D_deep ==
    JDict(<<KV(<<"a">>, JDict(<<KV(<<"b">>, JDict(<<KV(<<"c">>,
            JDict(<<KV(<<"d">>, JInt(42))>>))>>))>>))>>)
D_trips ==
    JDict(<<KV(K_trips, JList(<<JDict(<<KV(K_id, JInt(1))>>), JDict(<<KV(K_id, JInt(2))>>)>>))>>)
D_flags ==
    JDict(<<KV(<<"d", "o", "n", "e">>, JBool(FALSE)),
            KV(<<"0">>, JStr(<<"z", "e", "r", "o">>)),
            KV(<<>>, JInt(5))>>)

GetData ==
    { None, JDict(<<>>), JList(<<>>), JList(<<JInt(7)>>),
      D_deep, D_trips, D_flags, D_next0, D_null }

GetPaths ==
    { <<>>,
      <<"a", ".", "b", ".", "c", ".", "d">>,
      <<"a", ".", "b">>,
      <<"t", "r", "i", "p", "s", ".", "0", ".", "i", "d">>,
      <<"t", "r", "i", "p", "s", ".", "1", ".", "i", "d">>,
      <<"t", "r", "i", "p", "s", ".", "5", ".", "i", "d">>,
      <<"t", "r", "i", "p", "s", ".", "i", "d">>,
      F_trips_sup2,
      F_retry_next,
      F_status,
      <<"s", "t", "a", "t", "u", "s", ".", "x">>,
      <<"m", "i", "s", "s", "i", "n", "g">>,
      <<"d", "o", "n", "e">>,
      <<"0">> }

InitGet ==
    /\ ctx_allow = <<>>
    /\ rest_calls = <<>>
    /\ query_results = JDict(<<>>)
    /\ last_result = None
    /\ PollIdle
    /\ fn_in \in [data : GetData, path : GetPaths]
    /\ fn_out = NoRet
    /\ QuestionIdle
    /\ TasksIdle

ApplyGet ==
    /\ fn_out = NoRet
    /\ fn_out' = _get_nested_value(fn_in.data, fn_in.path)
    /\ UNCHANGED <<ctx_allow, rest_calls, query_results, last_result, pc, method, path,
                   done_field, done_value, name, body, path_params, query_params,
                   body_dict, attempt, current, ret, outcome, requests, answers, slept,
                   log_base, fn_in, question, tasks>>

GetSpec == InitGet /\ [][ApplyGet]_vars

\* A segment that is a non-negative integer in decimal notation.
IsIndexSegment(seg) == Len(seg) > 0 /\ \A i \in 1..Len(seg) : IsDecimalChar(seg[i])

\* The value reached from v by following segs in order, None when a step
\* has nothing to reach: an index out of range, an absent key, a null or a
\* non-container on the way.
RECURSIVE Follow(_, _)
Follow(v, segs) ==
    IF Len(segs) = 0 THEN v
    ELSE LET seg == Head(segs)
         IN CASE v.t = "list" ->
                    IF IsIndexSegment(seg) /\ DecimalValue(seg) < Len(v.v)
                    THEN Follow(v.v[DecimalValue(seg) + 1], Tail(segs))
                    ELSE None
              [] v.t = "dict" ->
                    IF HasKey(v, seg) THEN Follow(DictGet(v, seg), Tail(segs)) ELSE None
              [] OTHER -> None

\* C9: the lookup returns the value reached by following every segment, and
\* None, never an error, when there is nothing to reach or the path or the
\* data is empty; a falsy leaf (0, false) is returned as itself.
C9_LookupFollowsEverySegment ==
    fn_out # NoRet =>
        /\ ~IsRaised(fn_out)
        /\ fn_out = (IF Len(fn_in.path) = 0 \/ ~Truthy(fn_in.data)
                     THEN None
                     ELSE Follow(fn_in.data, Split(fn_in.path)))

(***************************************************************************)
(* The query tools: rest_call, graphql_query and sql_query.  Each is a     *)
(* function of the question's containers (call log, Dataset Registry,      *)
(* last-full-result holder) and of what the transport answers.             *)
(***************************************************************************)
T_hint_search == <<"U", "s", "e", " ", "s", "e", "a", "r", "c", "h", "_", "s", "c", "h", "e", "m", "a", " ", "t", "o", " ", "f", "i", "n", "d", " ", "v", "a", "l", "i", "d", " ", "e", "n", "u", "m", " ", "v", "a", "l", "u", "e", "s", " ", "o", "r", " ", "f", "i", "e", "l", "d", " ", "n", "a", "m", "e", "s">>
T_no_data_rest == <<"N", "o", " ", "d", "a", "t", "a", ".", " ", "C", "a", "l", "l", " ", "r", "e", "s", "t", "_", "c", "a", "l", "l", " ", "f", "i", "r", "s", "t", ".">>
T_no_data_graphql == <<"N", "o", " ", "d", "a", "t", "a", ".", " ", "C", "a", "l", "l", " ", "g", "r", "a", "p", "h", "q", "l", "_", "q", "u", "e", "r", "y", " ", "f", "i", "r", "s", "t", ".">>
T_sql_error == <<"s", "q", "l", " ", "e", "r", "r", "o", "r">>
T_not_found_404 == <<"N", "o", "t", " ", "F", "o", "u", "n", "d">>
N_sql_result == <<"s", "q", "l", "_", "r", "e", "s", "u", "l", "t">>
K_items == <<"i", "t", "e", "m", "s">>

\* The containers a tool reads and writes.
Store(calls, results, last) == [calls |-> calls, query_results |-> results, last_result |-> last]

\* result.get("status_code", 0)
StatusCode(result) == IF "status_code" \in DOMAIN result THEN result.status_code ELSE 0

\* rest_agent.py:222-228: the record rest_call appends to the call log.
RestCallRecord(m, p, pp, qp, bd) ==
    [method |-> m, path |-> p, path_params |-> pp, query_params |-> qp, body |-> bd]

StoreTables_Replace(results, tables) == tables

\* results.update(tables): the names in tables are overwritten, the others kept.
StoreTables(results, tables) == DictUpdate(results, tables, 1)

\* if stored_data is not None: _last_result.get()[0] = stored_data
StoreLast(last, stored) == IF stored # None THEN stored ELSE last

\* What a query tool hands back once the response is stored.
ToolResponse(result, stored, schema_info, nm) ==
    IF result.success /\ stored # None /\ Truthy(stored)
    THEN IF schema_info # None
         THEN [success |-> TRUE, table |-> nm] @@ schema_info
         ELSE [success |-> TRUE] @@ truncate_for_context(stored, nm, MAX_CONTEXT_CHARS)
    ELSE IF ~result.success /\ StatusCode(result) >= 400
         THEN [hint |-> T_hint_search] @@ result
         ELSE result

\* rest_agent.py:204-206: the three json.loads calls, none of them guarded.
RestParse(pp, qp, bd) ==
    ParseOptional(pp).ok /\ ParseOptional(qp).ok /\ ParseOptional(bd).ok

\* rest_agent.py:203-277
rest_call(st, allow, m, p, pp, qp, bd, nm, net) ==
    IF ~RestParse(pp, qp, bd)
    THEN [st |-> st, ret |-> Raised("JSONDecodeError"), wire |-> FALSE]
    ELSE LET call == execute_request(m, p, allow, net)
             result == call.result
             logged == Append(st.calls, RestCallRecord(m, p, pp, qp, bd))
             ex == extract_tables_from_response(result.data, nm)
             stored == DictGet(ex.tables, nm)
         IN IF result.success
            THEN [st |-> Store(logged, StoreTables(st.query_results, ex.tables),
                               StoreLast(st.last_result, stored)),
                  ret |-> ToolResponse(result, stored, ex.schema, nm),
                  wire |-> call.wire]
            ELSE [st |-> Store(logged, st.query_results, st.last_result),
                  ret |-> ToolResponse(result, None, None, nm),
                  wire |-> call.wire]

graphql_query_LogsOnSuccess(st, query, nm, net) ==
    LET result == net
        ex == extract_tables_from_response(result.data, nm)
        stored == DictGet(ex.tables, nm)
    IN IF result.success
       THEN [st |-> Store(Append(st.calls, query), StoreTables(st.query_results, ex.tables),
                          StoreLast(st.last_result, stored)),
             ret |-> ToolResponse(result, stored, ex.schema, nm),
             wire |-> TRUE]
       ELSE [st |-> st, ret |-> result, wire |-> TRUE]

\* graphql_agent.py:263-306
graphql_query(st, query, nm, net) ==
    LET result == net
        logged == Append(st.calls, query)
        ex == extract_tables_from_response(result.data, nm)
        stored == DictGet(ex.tables, nm)
    IN IF result.success
       THEN [st |-> Store(logged, StoreTables(st.query_results, ex.tables),
                          StoreLast(st.last_result, stored)),
             ret |-> ToolResponse(result, stored, ex.schema, nm),
             wire |-> TRUE]
       ELSE [st |-> Store(logged, st.query_results, st.last_result),
             ret |-> result,
             wire |-> TRUE]

\* execute_sql(data, sql): a statement names a table and keeps all of its
\* rows, its first row or none; it fails on an unknown table.
execute_sql(data, sql) ==
    IF ~HasKey(data, sql.table) THEN [success |-> FALSE, error |-> T_sql_error]
    ELSE LET rows == DictGet(data, sql.table).v
         IN [success |-> TRUE,
             result |-> CASE sql.keep = "all" -> JList(rows)
                          [] sql.keep = "first" ->
                                JList(SubSeq(rows, 1, IF Len(rows) > 0 THEN 1 ELSE 0))
                          [] OTHER -> JList(<<>>)]

sql_query_ClearsOnFailure(st, sql, no_data) ==
    IF ~Truthy(st.query_results)
    THEN [st |-> st, ret |-> [success |-> FALSE, error |-> no_data], wire |-> FALSE]
    ELSE LET result == execute_sql(st.query_results, sql)
         IN IF result.success
            THEN [st |-> Store(st.calls, st.query_results, result.result),
                  ret |-> [success |-> TRUE]
                          @@ truncate_for_context(result.result, N_sql_result,
                                                  MAX_CONTEXT_CHARS),
                  wire |-> FALSE]
            ELSE [st |-> Store(st.calls, st.query_results, None), ret |-> result,
                  wire |-> FALSE]

\* rest_agent.py:433-460 and graphql_agent.py:351-379
sql_query(st, sql, no_data) ==
    IF ~Truthy(st.query_results)
    THEN [st |-> st, ret |-> [success |-> FALSE, error |-> no_data], wire |-> FALSE]
    ELSE LET result == execute_sql(st.query_results, sql)
         IN IF result.success
            THEN [st |-> Store(st.calls, st.query_results, result.result),
                  ret |-> [success |-> TRUE]
                          @@ truncate_for_context(result.result, N_sql_result,
                                                  MAX_CONTEXT_CHARS),
                  wire |-> FALSE]
            ELSE [st |-> st, ret |-> result, wire |-> FALSE]

(***************************************************************************)
(* process_rest_query / process_query: one question.                       *)
(***************************************************************************)
\* settings.MAX_AGENT_TURNS (api_agent/config.py): the turn ceiling of one
\* agent run; every turn of the run modelled here invokes one tool.
MAX_AGENT_TURNS == 2

T_partial == <<"[", "P", "a", "r", "t", "i", "a", "l", " ", "-", " ">>
T_max_turns_data == <<"]", " ", "M", "a", "x", " ", "t", "u", "r", "n", "s", " ", "e", "x", "c", "e", "e", "d", "e", "d", " ", "b", "u", "t", " ", "d", "a", "t", "a", " ", "r", "e", "t", "r", "i", "e", "v", "e", "d", ".">>
T_not_complete == <<"]", " ", "D", "a", "t", "a", " ", "r", "e", "t", "r", "i", "e", "v", "e", "d", " ", "b", "u", "t", " ", "a", "g", "e", "n", "t", " ", "d", "i", "d", "n", "'", "t", " ", "c", "o", "m", "p", "l", "e", "t", "e", ".">>
T_no_output == <<"N", "o", " ", "o", "u", "t", "p", "u", "t", " ", "(">>
T_max_turns_exceeded == <<"M", "a", "x", " ", "t", "u", "r", "n", "s", " ", "e", "x", "c", "e", "e", "d", "e", "d", " ", "(">>
T_no_data_retrieved == <<")", ",", " ", "n", "o", " ", "d", "a", "t", "a", " ", "r", "e", "t", "r", "i", "e", "v", "e", "d">>
T_paren == <<")">>
T_turn == <<"T", "u", "r", "n", " ">>
T_slash == <<"/">>
T_agent_output == <<"T", "h", "e", " ", "a", "n", "s", "w", "e", "r", ".">>
T_key_error == <<"'", "_", "_", "s", "c", "h", "e", "m", "a", "'">>
T_model_error == <<"m", "o", "d", "e", "l", " ", "b", "e", "h", "a", "v", "i", "o", "r", " ", "e", "r", "r", "o", "r">>
Q_users == <<"{", " ", "u", "s", "e", "r", "s", " ", "{", " ", "i", "d", " ", "}", " ", "}">>
Q_posts == <<"{", " ", "p", "o", "s", "t", "s", " ", "{", " ", "i", "d", " ", "}", " ", "}">>
T_base_url == <<"C", "o", "u", "l", "d", " ", "n", "o", "t", " ", "d", "e", "t", "e", "r", "m", "i", "n", "e", " ", "b", "a", "s", "e", " ", "U", "R", "L", ".", " ", "S", "e", "t", " ", "X", "-", "B", "a", "s", "e", "-", "U", "R", "L", " ", "h", "e", "a", "d", "e", "r", " ", "o", "r", " ", "e", "n", "s", "u", "r", "e", " ", "s", "p", "e", "c", " ", "h", "a", "s", " ", "'", "s", "e", "r", "v", "e", "r", "s", "'", " ", "f", "i", "e", "l", "d", ".">>

\* get_turn_context(max_turns): the turn counter, as text.
get_turn_context(n, max_turns) == T_turn \o IntToText(n) \o T_slash \o IntToText(max_turns)

\* str(e) of the exceptions the processing of a question raises.
ExcStr(e) ==
    CASE e = "JSONDecodeError" -> T_expecting_value
      [] e = "ConnectError" -> T_connection_error
      [] e = "KeyError" -> T_key_error
      [] OTHER -> T_model_error

\* "api_calls" in the REST agent's outcome, "queries" in the GraphQL agent's.
CallsField(t, calls) == IF t = "rest" THEN [api_calls |-> calls] ELSE [queries |-> calls]

\* if last_data:
HasData(last_data) == Truthy(last_data)

\* rest_agent.py:591-605, graphql_agent.py:460-474
TurnLimitAnswer(t, calls, last_data, turn_info) ==
    IF HasData(last_data)
    THEN [ok |-> TRUE, data |-> JStr(T_partial \o turn_info \o T_max_turns_data),
          result |-> last_data, error |-> None] @@ CallsField(t, calls)
    ELSE [ok |-> FALSE, data |-> None, result |-> None,
          error |-> JStr(T_max_turns_exceeded \o turn_info \o T_no_data_retrieved)]
         @@ CallsField(t, calls)

NoOutputAnswer_NoError(t, calls, last_data, turn_info) ==
    IF HasData(last_data)
    THEN [ok |-> TRUE, data |-> JStr(T_partial \o turn_info \o T_not_complete),
          result |-> last_data, error |-> None] @@ CallsField(t, calls)
    ELSE [ok |-> FALSE, data |-> None, result |-> None, error |-> None]
         @@ CallsField(t, calls)

\* rest_agent.py:566-581, graphql_agent.py:435-450
NoOutputAnswer(t, calls, last_data, turn_info) ==
    IF HasData(last_data)
    THEN [ok |-> TRUE, data |-> JStr(T_partial \o turn_info \o T_not_complete),
          result |-> last_data, error |-> None] @@ CallsField(t, calls)
    ELSE [ok |-> FALSE, data |-> None, result |-> None,
          error |-> JStr(T_no_output \o turn_info \o T_paren)] @@ CallsField(t, calls)

\* rest_agent.py:611-617, graphql_agent.py:480-486
FinalAnswer(t, calls, last_data, output) ==
    [ok |-> TRUE, data |-> JStr(output), result |-> last_data, error |-> None]
    @@ CallsField(t, calls)

\* rest_agent.py:521-526
NoBaseUrlAnswer == [ok |-> FALSE, data |-> None, api_calls |-> <<>>, error |-> JStr(T_base_url)]

\* The exceptions the code under the outermost try raises; all derive from
\* Exception.
ExceptionClasses == {"JSONDecodeError", "AttributeError", "ValueError", "TypeError",
                     "ConnectError", "KeyError", "ModelBehaviorError"}

TopLevelCatch_OnlyMaxTurns(t, e) == Raised(e)

\* rest_agent.py:619-626, graphql_agent.py:488-495: except Exception as e
TopLevelCatch(t, e) ==
    IF e \in ExceptionClasses
    THEN [ok |-> FALSE, data |-> None, error |-> JStr(ExcStr(e))] @@ CallsField(t, <<>>)
    ELSE Raised(e)

\* Arguments the agent gives rest_call.
RestArgs ==
    { [target |-> <<"GET", P_users>>, pp |-> "", qp |-> "", bd |-> "", nm |-> N_data],
      [target |-> <<"GET", P_users>>, pp |-> "{bad", qp |-> "", bd |-> "", nm |-> N_data],
      [target |-> <<"GET", P_users>>, pp |-> "", qp |-> "{bad", bd |-> "", nm |-> N_data],
      [target |-> <<"GET", P_users>>, pp |-> "", qp |-> "", bd |-> "not-json", nm |-> N_data],
      [target |-> <<"GET", P_api_search>>, pp |-> "", qp |-> "", bd |-> "",
       nm |-> N_poll_result],
      [target |-> <<"POST", P_hotels>>, pp |-> "", qp |-> "", bd |-> "{\"query\": \"test\"}",
       nm |-> N_data] }

\* Arguments the agent gives graphql_query.
GraphqlArgs == { [query |-> Q_users, nm |-> N_data], [query |-> Q_posts, nm |-> N_data],
                 [query |-> Q_posts, nm |-> N_poll_result] }

D_items_empty == JDict(<<KV(K_count, JInt(0)), KV(K_items, JList(<<>>))>>)
NetHttpError == [success |-> FALSE, error |-> T_not_found_404, status_code |-> 404]

\* What the API may answer to a query tool.
QueryAnswers ==
    { NetOk(EarlierRows), NetOk(D_trips), NetOk(D_items_empty), NetOk(D_next2),
      NetOk(JInt(5)), NetFail, NetHttpError }

\* Statements the agent gives sql_query.
SqlStatements == { [table |-> N_data, keep |-> "all"], [table |-> N_data, keep |-> "none"],
                   [table |-> N_sql_result, keep |-> "first"] }

\* Arguments the agent gives poll_until_done, and what the polled API answers.
SessionPollArgs ==
    { [target |-> <<"GET", P_api_search>>, bd |-> "", pp |-> "", nm |-> N_poll_result],
      [target |-> <<"GET", P_api_search>>, bd |-> "", pp |-> "", nm |-> N_data],
      [target |-> <<"GET", P_api_search>>, bd |-> "", pp |-> "{bad", nm |-> N_data],
      [target |-> <<"GET", P_api_search>>, bd |-> "not-json", pp |-> "", nm |-> N_data] }
SessionPollAnswers == { NetOk(D_next1), NetOk(D_next0), NetOk(D_null), NetFail }

\* What fetching the schema comes to: the schema with or without a base URL,
\* a failed introspection (GraphQL), or an exception.
FetchOutcomes ==
    { [kind |-> "ok", base_url |-> TRUE], [kind |-> "ok", base_url |-> FALSE],
      [kind |-> "failed"], [kind |-> "raise", e |-> "ConnectError"],
      [kind |-> "raise", e |-> "KeyError"] }

\* How Runner.run ends.
RunEndings ==
    { [kind |-> "final"], [kind |-> "no_output"], [kind |-> "max_turns"],
      [kind |-> "raise", e |-> "ModelBehaviorError"], [kind |-> "tool_raise"] }

pollvars == <<pc, method, path, done_field, done_value, name, body, path_params,
              query_params, body_dict, attempt, current, ret, outcome, requests, answers,
              slept, log_base>>

\* The call log of the agent that serves the question.
CallLog == IF api_type = "rest" THEN rest_calls ELSE graphql_queries

\* A request handed to execute_request, as the history keeps it.
IssuedCall(m, p) == [method |-> m, path |-> p]

\* The requests of the poll_until_done invocation in progress.
PollIssued == [i \in 1..Len(requests) |-> IssuedCall(requests[i].method, requests[i].path)]

\* What a response body adds to the history of stored datasets.
Wrote(nm, data) ==
    IF data.t \in {"list", "dict"} THEN <<[name |-> nm, data |-> data]>> ELSE <<>>

\* A question arrives in a context whose ContextVars may still hold what an
\* earlier question left there.
InitSession ==
    /\ ctx_allow \in {<<>>, <<G_booking_search_any>>}
    /\ \/ /\ rest_calls = <<>>
          /\ query_results = JDict(<<>>)
          /\ last_result = None
       \/ /\ rest_calls = <<EarlierCall>>
          /\ query_results = JDict(<<KV(N_data, EarlierRows)>>)
          /\ last_result = EarlierRows
    /\ PollIdle
    /\ fn_in = NoRet
    /\ fn_out = NoRet
    /\ api_type \in {"rest", "graphql"}
    /\ stage = "idle"
    /\ turns = 0
    /\ graphql_queries = <<>>
    /\ raw_schema = IF query_results = JDict(<<>>) THEN NoSchema ELSE EarlierSchema
    /\ answer = NoRet
    /\ tool_ret = NoRet
    /\ writes = <<>>
    /\ ending = "none"
    /\ issued = <<>>
    /\ TasksIdle

Answered(how, value) ==
    /\ stage' = "answered"
    /\ ending' = how
    /\ answer' = value

\* rest_agent.py:500-547, graphql_agent.py:389-416: reset the per-question
\* storage, fetch the schema, wire the tools.
Begin(fetch) ==
    /\ stage = "idle"
    /\ fetch.kind = "failed" => api_type = "graphql"
    /\ (fetch.kind = "ok" /\ ~fetch.base_url) => api_type = "rest"
    /\ IF api_type = "rest"
       THEN rest_calls' = <<>> /\ UNCHANGED graphql_queries
       ELSE graphql_queries' = <<>> /\ UNCHANGED rest_calls
    /\ query_results' = JDict(<<>>)
    /\ last_result' = None
    /\ raw_schema' = IF fetch.kind = "ok"
                     THEN (IF api_type = "rest" THEN OpenApiSchema ELSE IntrospectionSchema)
                     ELSE raw_schema
    /\ CASE fetch.kind = "raise" -> Answered(fetch.e, TopLevelCatch(api_type, fetch.e))
         [] fetch.kind = "ok" /\ ~fetch.base_url -> Answered("no_base_url", NoBaseUrlAnswer)
         [] OTHER -> stage' = "running" /\ UNCHANGED <<answer, ending>>
    /\ UNCHANGED <<ctx_allow, pollvars, fn_in, fn_out, api_type, turns, tool_ret, writes,
                   issued, tasks>>

AgentMayCall == stage = "running" /\ pc = "idle" /\ turns < MAX_AGENT_TURNS

\* One turn of the agent run invoking rest_call.
RestCall(a, net) ==
    /\ AgentMayCall
    /\ api_type = "rest"
    /\ LET r == rest_call(Store(rest_calls, query_results, last_result), ctx_allow,
                          a.target[1], a.target[2], a.pp, a.qp, a.bd, a.nm, net)
           stored == ~IsRaised(r.ret) /\ r.wire /\ net.success
       IN /\ rest_calls' = r.st.calls
          /\ query_results' = r.st.query_results
          /\ last_result' = r.st.last_result
          /\ tool_ret' = r.ret
          /\ writes' = IF stored THEN writes \o Wrote(a.nm, net.data) ELSE writes
          /\ issued' = IF IsRaised(r.ret) THEN issued
                       ELSE Append(issued, IssuedCall(a.target[1], a.target[2]))
    /\ turns' = turns + 1
    /\ UNCHANGED <<ctx_allow, pollvars, fn_in, fn_out, api_type, stage, graphql_queries,
                   raw_schema, answer, ending, tasks>>

\* One turn of the agent run invoking graphql_query.
GraphqlQuery(a, net) ==
    /\ AgentMayCall
    /\ api_type = "graphql"
    /\ LET r == graphql_query(Store(graphql_queries, query_results, last_result),
                              a.query, a.nm, net)
       IN /\ graphql_queries' = r.st.calls
          /\ query_results' = r.st.query_results
          /\ last_result' = r.st.last_result
          /\ tool_ret' = r.ret
          /\ writes' = IF net.success THEN writes \o Wrote(a.nm, net.data) ELSE writes
          /\ issued' = Append(issued, a.query)
    /\ turns' = turns + 1
    /\ UNCHANGED <<ctx_allow, pollvars, fn_in, fn_out, api_type, stage, rest_calls,
                   raw_schema, answer, ending, tasks>>

\* One turn of the agent run invoking sql_query.
SqlQuery(sql) ==
    /\ AgentMayCall
    /\ LET r == sql_query(Store(CallLog, query_results, last_result), sql,
                          IF api_type = "rest" THEN T_no_data_rest ELSE T_no_data_graphql)
       IN /\ last_result' = r.st.last_result
          /\ tool_ret' = r.ret
    /\ turns' = turns + 1
    /\ UNCHANGED <<ctx_allow, pollvars, fn_in, fn_out, api_type, stage, rest_calls,
                   graphql_queries, query_results, raw_schema, answer, writes, ending,
                   issued, tasks>>

\* Schema Search over the blob: the lines that match, with their numbers.
search_schema_impl(blob, pattern) ==
    [t |-> "search",
     hits |-> SelectSeq([i \in 1..Len(blob) |-> [line |-> i, text |-> blob[i]]],
                        LAMBDA hit : hit.text = pattern)]

SearchPatterns == {"type Booking {", "type Trip {", "  id: ID", "  /users:"}

\* One turn of the agent run invoking search_schema.
SearchSchema(pattern) ==
    /\ AgentMayCall
    /\ tool_ret' = search_schema_impl(raw_schema, pattern)
    /\ turns' = turns + 1
    /\ UNCHANGED <<ctx_allow, session, pollvars, fn_in, fn_out, api_type, stage,
                   graphql_queries, raw_schema, answer, writes, ending, issued, tasks>>

\* One turn of the agent run invoking poll_until_done.
SessionPollInvoke ==
    /\ AgentMayCall
    /\ api_type = "rest"
    /\ \E a \in SessionPollArgs :
          PollInvoke(a.target, F_retry_next, V_zero, a.bd, a.pp, "", a.nm)

SessionPollRequest == stage = "running" /\ \E net \in SessionPollAnswers : PollRequest(net)

SessionPollSleep == stage = "running" /\ PollSleep

\* poll_until_done hands its result to the agent run.
PollReturn ==
    /\ stage = "running"
    /\ pc = "returned"
    /\ tool_ret' = ret
    /\ writes' = IF outcome = "DONE"
                 THEN writes \o Wrote(name, answers[Len(answers)].data)
                 ELSE writes
    /\ issued' = issued \o PollIssued
    /\ turns' = turns + 1
    /\ pc' = "idle"
    /\ method' = "" /\ path' = <<>> /\ done_field' = <<>> /\ done_value' = <<>>
    /\ name' = <<>>
    /\ body' = "" /\ path_params' = "" /\ query_params' = ""
    /\ body_dict' = JDict(<<>>)
    /\ attempt' = 0
    /\ current' = None
    /\ ret' = NoRet
    /\ outcome' = "NONE"
    /\ requests' = <<>>
    /\ answers' = <<>>
    /\ slept' = 0
    /\ log_base' = Len(rest_calls)
    /\ UNCHANGED <<ctx_allow, session, fn_in, fn_out, api_type, stage, graphql_queries,
                   raw_schema, answer, ending, tasks>>

\* rest_agent.py:553-626, graphql_agent.py:422-495: Runner.run ends and the
\* outcome is assembled.
RunEnds(how) ==
    /\ stage = "running"
    /\ pc = "idle"
    /\ how.kind = "max_turns" => turns = MAX_AGENT_TURNS
    /\ how.kind = "tool_raise" => IsRaised(tool_ret)
    /\ LET turn_info == get_turn_context(turns, MAX_AGENT_TURNS)
       IN CASE how.kind = "final" ->
                 Answered("final", FinalAnswer(api_type, CallLog, last_result, T_agent_output))
            [] how.kind = "no_output" ->
                 Answered("no_output",
                          NoOutputAnswer(api_type, CallLog, last_result, turn_info))
            [] how.kind = "max_turns" ->
                 Answered("max_turns",
                          TurnLimitAnswer(api_type, CallLog, last_result, turn_info))
            [] how.kind = "raise" -> Answered(how.e, TopLevelCatch(api_type, how.e))
            [] OTHER -> Answered(tool_ret.v, TopLevelCatch(api_type, tool_ret.v))
    /\ UNCHANGED <<ctx_allow, session, pollvars, fn_in, fn_out, api_type, turns,
                   graphql_queries, raw_schema, tool_ret, writes, issued, tasks>>

T_missing_header == <<"M", "i", "s", "s", "i", "n", "g", " ", "r", "e", "q", "u", "i", "r", "e", "d", " ", "h", "e", "a", "d", "e", "r">>

\* tools/query.py:29-32: the request carries no usable context.
MissingHeaderAnswer == [ok |-> FALSE, error |-> JStr(T_missing_header)]

\* tools/query.py:34-55: what the unified query tool makes of the outcome of
\* process_query / process_rest_query.
unified_query(t, result, include_result) ==
    LET response == [ok |-> result.ok, data |-> result.data, error |-> result.error]
                    @@ (IF t = "graphql" THEN [queries |-> result.queries]
                        ELSE [api_calls |-> result.api_calls])
    IN IF include_result
       THEN response @@ [result |-> IF "result" \in DOMAIN result THEN result.result
                                    ELSE None]
       ELSE response

\* get_request_context() raises MissingHeaderError: no question is processed.
QueryRejected ==
    /\ stage = "idle"
    /\ stage' = "rejected"
    /\ ending' = "missing_header"
    /\ answer' = MissingHeaderAnswer
    /\ UNCHANGED <<ctx_allow, session, pollvars, fn_in, fn_out, api_type, turns,
                   graphql_queries, raw_schema, tool_ret, writes, issued, tasks>>

SessionNext ==
    \/ QueryRejected
    \/ \E fetch \in FetchOutcomes : Begin(fetch)
    \/ \E a \in RestArgs, net \in QueryAnswers : RestCall(a, net)
    \/ \E a \in GraphqlArgs, net \in QueryAnswers : GraphqlQuery(a, net)
    \/ \E sql \in SqlStatements : SqlQuery(sql)
    \/ \E pattern \in SearchPatterns : SearchSchema(pattern)
    \/ SessionPollInvoke
    \/ SessionPollRequest
    \/ SessionPollSleep
    \/ PollReturn
    \/ \E how \in RunEndings : RunEnds(how)

SessionSpec == InitSession /\ [][SessionNext]_vars

(***************************************************************************)
(* Properties of one question's processing.                                *)
(***************************************************************************)
\* The dataset the Table Extractor derives from a stored response body.
Extraction(data) ==
    IF data.t = "list" THEN data
    ELSE LET lists == SelectSeq(data.v, LAMBDA item : item.v.t = "list")
         IN IF Len(lists) > 0 THEN lists[1].v ELSE JList(<<data>>)

\* The stored datasets so far, that of a poll which has just ended DONE included.
AllWrites ==
    writes \o (IF pc = "returned" /\ outcome = "DONE"
               THEN Wrote(name, answers[Len(answers)].data)
               ELSE <<>>)

Writers(nm) == {i \in 1..Len(AllWrites) : AllWrites[i].name = nm}

LastWriter(nm) == CHOOSE i \in Writers(nm) : \A j \in Writers(nm) : j <= i

DatasetNames == {N_data, N_poll_result, N_sql_result}

\* C11: after any sequence of successful rest_call, graphql_query and
\* poll_until_done invocations in one question, every dataset name of the
\* registry maps to the extraction of the most recent response stored under
\* that name, and a name no invocation wrote is not in the registry.
C11_RegistryLastWriteWins ==
    stage \in {"running", "answered"} =>
        \A nm \in DatasetNames :
            IF Writers(nm) # {}
            THEN /\ HasKey(query_results, nm)
                 /\ DictGet(query_results, nm) = Extraction(AllWrites[LastWriter(nm)].data)
            ELSE ~HasKey(query_results, nm)

\* C11 witness: two responses with different datasets were stored under the
\* same name, and the registry holds the second.
C11_Witness ==
    /\ stage = "running"
    /\ Len(writes) = 2
    /\ writes[1].name = writes[2].name
    /\ Extraction(writes[1].data) # Extraction(writes[2].data)
    /\ DictGet(query_results, writes[2].name) = Extraction(writes[2].data)

\* Some invocation of the run stored at least one record.
DataRetrieved == \E i \in 1..Len(writes) : Len(Extraction(writes[i].data).v) > 0

StartsWith(text, prefix) == Len(text) >= Len(prefix) /\ SubSeq(text, 1, Len(prefix)) = prefix

\* C12: when the agent run ends by turn-limit exhaustion, the outcome is
\* ok=true with error=null and data starting with "[Partial - " whenever any
\* data was retrieved during the run, and ok=false with an error otherwise.
C12_TurnLimitPrefersPartialData ==
    ending = "max_turns" =>
        IF DataRetrieved
        THEN /\ answer.ok
             /\ answer.error = None
             /\ answer.data # None
             /\ StartsWith(answer.data.v, T_partial)
        ELSE /\ ~answer.ok
             /\ answer.error # None

\* C13: an exception raised while a question is processed (schema fetch,
\* agent run, a tool's exception leaving the run) never reaches the caller:
\* the outcome is ok=false with the exception's message as error.
C13_TopLevelCatchesEverything ==
    /\ ~IsRaised(answer)
    /\ ending \in ExceptionClasses =>
          /\ stage = "answered"
          /\ answer = [ok |-> FALSE, data |-> None, error |-> JStr(ExcStr(ending))]
                      @@ CallsField(api_type, <<>>)

\* C13 witness: an exception left the agent run after a tool call had
\* already logged a call, and was reported as an outcome.
C13_Witness ==
    /\ ending \in ExceptionClasses
    /\ turns > 0
    /\ Len(CallLog) > 0
    /\ ~answer.ok

\* C14: every invocation of rest_call and poll_until_done returns a
\* structured object and never raises into the agent loop.
C14_ToolsReturnStructuredResults == ~IsRaised(tool_ret) /\ ~IsRaised(ret)

(***************************************************************************)
(* Concurrent questions.  Every question runs in its own context; a       *)
(* ContextVar binds, per context, a reference to a container, and a tool   *)
(* runs in a child context that starts as a copy of its parent's bindings. *)
(***************************************************************************)
\* Questions processed concurrently.
MAX_QUESTIONS == 2

Units == 1..MAX_QUESTIONS

\* The mutable containers behind _rest_calls / _graphql_queries,
\* _query_results and _last_result.
Cells == {"calls", "query_results", "last_result"}

Unbound == <<0, "unbound">>

\* The container question q creates for a cell; q = 0 names what the
\* context the questions were started from already held.
Obj(q, cell) == <<q, cell>>

\* [], {} and [None]
EmptyCell(cell) ==
    CASE cell = "calls" -> <<>>
      [] cell = "query_results" -> JDict(<<>>)
      [] OTHER -> None

ResetStorage_InPlace(q, h, ctx) ==
    IF ctx.calls = Unbound
    THEN [heap |-> [id \in DOMAIN h \cup {Obj(q, c) : c \in Cells} |->
                       IF id[1] = q THEN EmptyCell(id[2]) ELSE h[id]],
          ctx |-> [ctx EXCEPT !.calls = Obj(q, "calls"),
                              !.query_results = Obj(q, "query_results"),
                              !.last_result = Obj(q, "last_result")]]
    ELSE [heap |-> [id \in DOMAIN h |->
                       IF id \in {ctx.calls, ctx.query_results, ctx.last_result}
                       THEN EmptyCell(id[2]) ELSE h[id]],
          ctx |-> ctx]

\* rest_agent.py:505-507, graphql_agent.py:396-398: every ContextVar is
\* bound to a container created for this question.
ResetStorage(q, h, ctx) ==
    [heap |-> [id \in DOMAIN h \cup {Obj(q, c) : c \in Cells} |->
                  IF id[1] = q THEN EmptyCell(id[2]) ELSE h[id]],
     ctx |-> [ctx EXCEPT !.calls = Obj(q, "calls"),
                         !.query_results = Obj(q, "query_results"),
                         !.last_result = Obj(q, "last_result")]]

\* _rest_calls.get(), _query_results.get(), _last_result.get()[0]
ReadStore(h, ctx) == Store(h[ctx.calls], h[ctx.query_results], h[ctx.last_result])

WriteBack_Rebind(h, ctx, st) == [heap |-> h, ctx |-> ctx]

\* .append(...), results.update(tables), _last_result.get()[0] = ...: the
\* containers the context's bindings refer to are mutated in place;
\* _query_results.set(results) rebinds the same container.
WriteBack(h, ctx, st) ==
    [heap |-> [h EXCEPT ![ctx.calls] = st.calls,
                        ![ctx.query_results] = st.query_results,
                        ![ctx.last_result] = st.last_result],
     ctx |-> ctx]

\* What question q asks for and what the API answers to it.
QuestionPath(q) == IF q = 1 THEN P_users ELSE P_users \o <<"/">> \o IntToText(q)
QuestionQuery(q) == IF q = 1 THEN Q_users ELSE Q_posts \o IntToText(q)
QuestionRows(q) == NetOk(JList(<<JDict(<<KV(K_id, JInt(q))>>)>>))

\* The query tool of the agent that serves the question, applied to a store.
QueryTool(t, q, st) ==
    IF t = "rest"
    THEN rest_call(st, <<>>, "GET", QuestionPath(q), "", "", "", N_data, QuestionRows(q))
    ELSE graphql_query(st, QuestionQuery(q), N_data, QuestionRows(q))

NoContext == [calls |-> Unbound, query_results |-> Unbound, last_result |-> Unbound,
              raw_schema |-> 0]
InheritedContext == [calls |-> Obj(0, "calls"), query_results |-> Obj(0, "query_results"),
                     last_result |-> Obj(0, "last_result"), raw_schema |-> 0]
InheritedHeap ==
    [id \in {Obj(0, c) : c \in Cells} |->
        CASE id[2] = "calls" -> <<EarlierCall>>
          [] id[2] = "query_results" -> JDict(<<KV(N_data, EarlierRows)>>)
          [] OTHER -> EarlierRows]

NewUnit == [pc |-> "new", turns |-> 0, child |-> NoContext, answer |-> NoRet,
            shadow |-> Store(<<>>, JDict(<<>>), None)]

\* The questions start in contexts copied from one base context, which is
\* empty or still holds the containers of an earlier question.
InitContext ==
    /\ ctx_allow = <<>>
    /\ rest_calls = <<>>
    /\ query_results = JDict(<<>>)
    /\ last_result = None
    /\ PollIdle
    /\ fn_in = NoRet
    /\ fn_out = NoRet
    /\ api_type \in {"rest", "graphql"}
    /\ stage = "idle"
    /\ turns = 0
    /\ graphql_queries = <<>>
    /\ raw_schema = NoSchema
    /\ answer = NoRet
    /\ tool_ret = NoRet
    /\ writes = <<>>
    /\ ending = "none"
    /\ issued = <<>>
    /\ \/ heap = InheritedHeap /\ ctxs = [q \in Units |-> InheritedContext]
       \/ heap = <<>> /\ ctxs = [q \in Units |-> NoContext]
    /\ units = [q \in Units |-> NewUnit]

idle == <<ctx_allow, session, pollvars, fn_in, fn_out, question>>

\* rest_agent.py:505-511: the reset, up to the await of the schema fetch.
QReset(q) ==
    /\ units[q].pc = "new"
    /\ LET r == ResetStorage(q, heap, ctxs[q])
       IN /\ heap' = r.heap
          /\ ctxs' = [ctxs EXCEPT ![q] = r.ctx]
    /\ units' = [units EXCEPT ![q].pc = "fetching"]
    /\ UNCHANGED idle

\* rest_agent.py:511-547: the schema arrives (or the fetch raises).
QFetched(q, ok) ==
    /\ units[q].pc = "fetching"
    /\ IF ok
       THEN /\ ctxs' = [ctxs EXCEPT ![q].raw_schema = q]
            /\ units' = [units EXCEPT ![q].pc = "running"]
       ELSE /\ units' = [units EXCEPT ![q].pc = "answered",
                                      ![q].answer = TopLevelCatch(api_type, "ConnectError")]
            /\ UNCHANGED ctxs
    /\ UNCHANGED <<heap, idle>>

\* A tool invocation starts in a child context: a copy of the bindings.
QCallStart(q) ==
    /\ units[q].pc = "running"
    /\ units[q].turns < MAX_AGENT_TURNS
    /\ units' = [units EXCEPT ![q].pc = "calling", ![q].child = ctxs[q]]
    /\ UNCHANGED <<heap, ctxs, idle>>

\* The API answers and the tool stores the response.
QCallFinish(q) ==
    /\ units[q].pc = "calling"
    /\ LET r == QueryTool(api_type, q, ReadStore(heap, units[q].child))
           w == WriteBack(heap, units[q].child, r.st)
       IN /\ heap' = w.heap
          /\ units' = [units EXCEPT ![q].pc = "running",
                                    ![q].turns = @ + 1,
                                    ![q].child = NoContext,
                                    ![q].shadow = QueryTool(api_type, q, @).st]
    /\ UNCHANGED <<ctxs, idle>>

\* rest_agent.py:562-617: the parent reads the containers through its own
\* bindings and assembles the outcome.
QFinish(q, how) ==
    /\ units[q].pc = "running"
    /\ how = "max_turns" => units[q].turns = MAX_AGENT_TURNS
    /\ LET st == ReadStore(heap, ctxs[q])
           turn_info == get_turn_context(units[q].turns, MAX_AGENT_TURNS)
       IN units' = [units EXCEPT
                       ![q].pc = "answered",
                       ![q].answer =
                           IF how = "final"
                           THEN FinalAnswer(api_type, st.calls, st.last_result,
                                            T_agent_output)
                           ELSE TurnLimitAnswer(api_type, st.calls, st.last_result,
                                                turn_info)]
    /\ UNCHANGED <<heap, ctxs, idle>>

ContextNext ==
    \E q \in Units :
        \/ QReset(q)
        \/ \E ok \in BOOLEAN : QFetched(q, ok)
        \/ QCallStart(q)
        \/ QCallFinish(q)
        \/ \E how \in {"final", "max_turns"} : QFinish(q, how)

ContextSpec == InitContext /\ [][ContextNext]_vars

\* The containers a context's bindings refer to.
Bound(ctx) == {ctx.calls, ctx.query_results, ctx.last_result} \ {Unbound}

\* The calls an outcome lists.
Listed(t, a) == IF t = "rest" THEN a.api_calls ELSE a.queries

Elements(seq) == {seq[i] : i \in 1..Len(seq)}

Started(q) == units[q].pc # "new"

\* C15: two questions processed concurrently never share a container: once
\* a question has reset its storage, no binding of another question (of the
\* question itself or of a tool it runs) refers to one of its containers;
\* its call log, registry and last-full-result holder hold only what its
\* own calls produced, its schema blob is its own, and its outcome lists
\* only calls it issued.
C15_QuestionsAreIsolated ==
    \A q \in Units :
        Started(q) =>
            /\ \A p \in Units \ {q} :
                   Bound(ctxs[q]) \cap (Bound(ctxs[p]) \cup Bound(units[p].child)) = {}
            /\ Elements(heap[ctxs[q].calls]) \subseteq Elements(units[q].shadow.calls)
            /\ Elements(heap[ctxs[q].query_results].v)
                   \subseteq Elements(units[q].shadow.query_results.v)
            /\ heap[ctxs[q].last_result] \in {None, units[q].shadow.last_result}
            /\ ctxs[q].raw_schema \in {0, q}
            /\ units[q].pc = "answered" =>
                   Elements(Listed(api_type, units[q].answer))
                       \subseteq Elements(units[q].shadow.calls)

\* C15 witness: started from a context that still held an earlier
\* question's containers, two questions both made calls while the other
\* was in progress and both answered, each listing its own calls.
C15_Witness ==
    /\ Obj(0, "calls") \in DOMAIN heap
    /\ \A q \in Units :
           /\ units[q].pc = "answered"
           /\ units[q].turns > 0
           /\ Len(Listed(api_type, units[q].answer)) = units[q].turns
    /\ Listed(api_type, units[1].answer) # Listed(api_type, units[2].answer)

\* C16: what a tool wrote in its child context is what the parent reads
\* through its own bindings: after every completed tool call the parent
\* sees the call log, the registry and the last full result the calls
\* produced, and the outcome it assembles carries them.
C16_ChildWritesReachParent ==
    \A q \in Units :
        /\ units[q].pc \in {"running", "calling"} =>
               ReadStore(heap, ctxs[q]) = units[q].shadow
        /\ (units[q].pc = "answered" /\ units[q].answer.ok) =>
               /\ Listed(api_type, units[q].answer) = units[q].shadow.calls
               /\ units[q].answer.result = units[q].shadow.last_result

\* C16 witness: a question whose tools ran twice in child contexts gave its
\* final answer with both calls and the last full result in it.
C16_Witness ==
    \E q \in Units :
        /\ units[q].pc = "answered"
        /\ units[q].turns = 2
        /\ units[q].answer.ok
        /\ Len(Listed(api_type, units[q].answer)) = 2
        /\ units[q].answer.result = QuestionRows(q).data

(***************************************************************************)
(* The Table Extractor and the Context Truncator, applied to drawn inputs. *)
(***************************************************************************)
K_name == <<"n", "a", "m", "e">>
K_users == <<"u", "s", "e", "r", "s">>
K_posts == <<"p", "o", "s", "t", "s">>
K_meta == <<"m", "e", "t", "a">>
K_page == <<"p", "a", "g", "e">>
V_Bob == <<"B", "o", "b">>

Row(n) == JDict(<<KV(K_id, JInt(n))>>)

\* Response bodies: arrays, mappings with and without sequence-valued keys,
\* scalars and null.
ExtractData ==
    { JList(<<Row(1), Row(2)>>),
      JList(<<>>),
      JList(<<JInt(1), JInt(2)>>),
      D_trips,
      JDict(<<KV(K_users, JList(<<Row(1)>>)), KV(K_posts, JList(<<Row(2)>>))>>),
      JDict(<<KV(K_items, JList(<<>>)), KV(K_posts, JList(<<Row(2)>>))>>),
      JDict(<<KV(K_count, JInt(100)), KV(K_users, JList(<<Row(1)>>)),
              KV(K_meta, JDict(<<KV(K_page, JInt(1))>>))>>),
      JDict(<<KV(K_items, JList(<<>>))>>),
      D_items_empty,
      JDict(<<>>),
      JDict(<<KV(K_count, JInt(5)), KV(K_meta, JDict(<<KV(K_page, JInt(1))>>))>>),
      D_deep,
      JDict(<<KV(K_status, None)>>),
      JStr(K_status),
      JInt(123),
      JBool(TRUE),
      None }

\* Datasets of 2 to 36 serialized characters; the last one has a column
\* that only its second record carries.
TruncateData ==
    { JList(<<>>),
      JList(<<Row(1)>>),
      JList(<<Row(1), Row(2)>>),
      JList(<<Row(1), Row(2), Row(3)>>),
      JList(<<Row(1), JDict(<<KV(K_id, JInt(2)), KV(K_name, JStr(V_Bob))>>)>>) }

DatasetLabels == {N_data, N_poll_result}

\* A budget holds at least the empty sequence.
Budgets == 2..MAX_CONTEXT_CHARS

InitExecutor ==
    /\ ctx_allow = <<>>
    /\ rest_calls = <<>>
    /\ query_results = JDict(<<>>)
    /\ last_result = None
    /\ PollIdle
    /\ \/ fn_in \in [op : {"extract"}, data : ExtractData, name : DatasetLabels]
       \/ fn_in \in [op : {"truncate"}, data : TruncateData, name : DatasetLabels,
                     max_chars : Budgets]
    /\ fn_out = NoRet
    /\ QuestionIdle
    /\ TasksIdle

ApplyExtract ==
    /\ fn_out = NoRet
    /\ fn_in.op = "extract"
    /\ fn_out' = extract_tables_from_response(fn_in.data, fn_in.name)
    /\ UNCHANGED <<ctx_allow, session, pollvars, fn_in, question, tasks>>

ApplyTruncate ==
    /\ fn_out = NoRet
    /\ fn_in.op = "truncate"
    /\ fn_out' = truncate_for_context(fn_in.data, fn_in.name, fn_in.max_chars)
    /\ UNCHANGED <<ctx_allow, session, pollvars, fn_in, question, tasks>>

ExecutorNext == ApplyExtract \/ ApplyTruncate

ExecutorSpec == InitExecutor /\ [][ExecutorNext]_vars

Applied(op) == fn_out # NoRet /\ fn_in.op = op

SequenceValued(data) == SelectSeq(data.v, LAMBDA item : item.v.t = "list")

\* C17: the extractor classifies a response body in order: an array is
\* stored whole under the name with no summary; a mapping with a
\* sequence-valued direct key gives the first such sequence (empty or not)
\* with no summary; a mapping without one, {} included, is wrapped as a
\* single record and summarised with rows = 1; a scalar or null gives an
\* empty registry and no summary.
C17_ExtractClassification ==
    Applied("extract") =>
        LET data == fn_in.data
            only(rows) == JDict(<<KV(fn_in.name, rows)>>)
        IN CASE data.t = "list" ->
                    fn_out.tables = only(data) /\ fn_out.schema = None
             [] data.t = "dict" /\ Len(SequenceValued(data)) > 0 ->
                    /\ fn_out.tables = only(SequenceValued(data)[1].v)
                    /\ fn_out.schema = None
             [] data.t = "dict" /\ Len(SequenceValued(data)) = 0 ->
                    /\ fn_out.tables = only(JList(<<data>>))
                    /\ fn_out.schema # None
                    /\ fn_out.schema.rows = 1
             [] OTHER ->
                    fn_out.tables = JDict(<<>>) /\ fn_out.schema = None

\* C17 witness: a mapping whose first sequence-valued key holds an empty
\* sequence and whose second holds records was extracted to the empty
\* dataset.
C17_Witness ==
    /\ Applied("extract")
    /\ fn_in.data.t = "dict"
    /\ Len(SequenceValued(fn_in.data)) = 2
    /\ Len(SequenceValued(fn_in.data)[2].v.v) > 0
    /\ fn_out.tables = JDict(<<KV(fn_in.name, JList(<<>>))>>)

\* C18: a truncated view is a prefix of the dataset made of whole records,
\* its serialization fits the budget, showing counts the records returned,
\* rows counts the records of the full dataset, and the schema is the one
\* of the full dataset.
C18_TruncatedViewIsWholeRecordPrefix ==
    (Applied("truncate") /\ fn_out.truncated) =>
        LET full == fn_in.data.v
            shown == fn_out.data.v
        IN /\ fn_out.data.t = "list"
           /\ Len(shown) <= Len(full)
           /\ \A i \in 1..Len(shown) : shown[i] = full[i]
           /\ Len(JsonDumps(fn_out.data)) <= fn_in.max_chars
           /\ fn_out.showing = Len(shown)
           /\ fn_out.rows = Len(full)
           /\ fn_out.schema = get_table_schema_summary(fn_in.data, fn_in.name).schema

\* C18 witness: a two-record dataset was cut to its first record, and the
\* schema still names the column only the second record has.
C18_Witness ==
    /\ Applied("truncate")
    /\ fn_out.truncated
    /\ fn_out.showing = 1
    /\ fn_out.rows = 2
    /\ fn_out.schema
         # get_table_schema_summary(fn_out.data, fn_in.name).schema

\* C19: the dataset comes back whole (truncated = false, data = D,
\* table = n, rows = |D|) exactly when its serialization is at most
\* max_chars characters long: at size = max_chars it is not truncated, at
\* size = max_chars + 1 it is.
C19_TruncationBoundaryInclusive ==
    Applied("truncate") =>
        LET size == Len(JsonDumps(fn_in.data))
            whole == [truncated |-> FALSE, table |-> fn_in.name,
                      rows |-> Len(fn_in.data.v), data |-> fn_in.data]
        IN /\ (size <= fn_in.max_chars) <=> (fn_out = whole)
           /\ (size <= fn_in.max_chars) <=> ~fn_out.truncated

\* C19 witness: a non-empty dataset exactly max_chars long came back whole.
C19_Witness ==
    /\ Applied("truncate")
    /\ Len(fn_in.data.v) > 0
    /\ Len(JsonDumps(fn_in.data)) = fn_in.max_chars
    /\ ~fn_out.truncated
    /\ fn_out.data = fn_in.data

(***************************************************************************)
(* GraphQL type references (graphql_agent.py:47-59).                       *)
(***************************************************************************)
\* Wrappers around a named type in the drawn type references.
MAX_WRAPPERS == 5

K_kind == <<"k", "i", "n", "d">>
K_ofType == <<"o", "f", "T", "y", "p", "e">>
T_NON_NULL == <<"N", "O", "N", "_", "N", "U", "L", "L">>
T_LIST == <<"L", "I", "S", "T">>
T_OBJECT == <<"O", "B", "J", "E", "C", "T">>
T_SCALAR == <<"S", "C", "A", "L", "A", "R">>
T_User == <<"U", "s", "e", "r">>
T_String == <<"S", "t", "r", "i", "n", "g">>
T_unknown == <<"?">>

FormatWrapped_DropsBangOnList(kind, type_name, inner) ==
    IF kind = JStr(T_NON_NULL)
    THEN IF Len(inner) > 0 /\ inner[1] = "[" THEN inner ELSE inner \o <<"!">>
    ELSE IF kind = JStr(T_LIST)
    THEN <<"[">> \o inner \o <<"]">>
    ELSE IF Truthy(type_name) THEN type_name.v ELSE T_unknown

\* Lines 54-59: the rendering of one level, given the rendering of ofType.
FormatWrapped(kind, type_name, inner) ==
    IF kind = JStr(T_NON_NULL)
    THEN inner \o <<"!">>
    ELSE IF kind = JStr(T_LIST)
    THEN <<"[">> \o inner \o <<"]">>
    ELSE IF Truthy(type_name) THEN type_name.v ELSE T_unknown

RECURSIVE _format_type(_)
_format_type(t) ==
    IF ~Truthy(t)
    THEN T_unknown
    ELSE LET kind == DictGet(t, K_kind)
             wraps == kind \in {JStr(T_NON_NULL), JStr(T_LIST)}
         IN FormatWrapped(kind, DictGet(t, K_name),
                          IF wraps THEN _format_type(DictGet(t, K_ofType)) ELSE <<>>)

NonNull(inner) == JDict(<<KV(K_kind, JStr(T_NON_NULL)), KV(K_ofType, inner)>>)
ListOf(inner) == JDict(<<KV(K_kind, JStr(T_LIST)), KV(K_ofType, inner)>>)
Named(type_name, kind) == JDict(<<KV(K_name, JStr(type_name)), KV(K_kind, JStr(kind))>>)

\* What a chain of wrappers ends in: a named type, as the tests and as
\* introspection write it, a nameless one, or no reference at all.
TypeLeaves ==
    { Named(T_User, T_OBJECT),
      JDict(<<KV(K_kind, JStr(T_SCALAR)), KV(K_name, JStr(T_String)), KV(K_ofType, None)>>),
      JDict(<<KV(K_kind, JStr(T_SCALAR)), KV(K_name, None)>>),
      JDict(<<>>),
      None }

RECURSIVE TypeRefs(_)
TypeRefs(depth) ==
    IF depth = 0 THEN TypeLeaves
    ELSE LET inner == TypeRefs(depth - 1)
         IN inner \cup {NonNull(t) : t \in inner} \cup {ListOf(t) : t \in inner}

InitFormat ==
    /\ ctx_allow = <<>>
    /\ rest_calls = <<>>
    /\ query_results = JDict(<<>>)
    /\ last_result = None
    /\ PollIdle
    /\ fn_in \in [op : {"format"}, t : TypeRefs(MAX_WRAPPERS)]
    /\ fn_out = NoRet
    /\ QuestionIdle
    /\ TasksIdle

ApplyFormat ==
    /\ fn_out = NoRet
    /\ fn_in.op = "format"
    /\ fn_out' = JStr(_format_type(fn_in.t))
    /\ UNCHANGED <<ctx_allow, session, pollvars, fn_in, question, tasks>>

FormatSpec == InitFormat /\ [][ApplyFormat]_vars

IsWrapper(t) == t.t = "dict" /\ DictGet(t, K_kind) \in {JStr(T_NON_NULL), JStr(T_LIST)}

\* The kinds of the wrappers of a reference, outermost first.
RECURSIVE WrapperKinds(_)
WrapperKinds(t) ==
    IF IsWrapper(t)
    THEN <<DictGet(t, K_kind).v>> \o WrapperKinds(DictGet(t, K_ofType))
    ELSE <<>>

\* What the wrappers wrap.
RECURSIVE Innermost(_)
Innermost(t) == IF IsWrapper(t) THEN Innermost(DictGet(t, K_ofType)) ELSE t

LeafText(t) ==
    IF t.t = "dict" /\ HasKey(t, K_name) /\ DictGet(t, K_name) # None
    THEN DictGet(t, K_name).v
    ELSE T_unknown

Reverse(seq) == [i \in 1..Len(seq) |-> seq[Len(seq) + 1 - i]]

\* C20: a type reference renders as one "[" per LIST wrapper, then the
\* name of the innermost type ("?" when the reference is absent, empty or
\* nameless), then, from the innermost wrapper outwards, "!" for NON_NULL
\* and "]" for LIST: NON_NULL appends "!" to the inner rendering, LIST
\* encloses it in brackets, at every nesting.
C20_TypeFolding ==
    Applied("format") =>
        LET kinds == WrapperKinds(fn_in.t)
            lists == SelectSeq(kinds, LAMBDA k : k = T_LIST)
            closing == Reverse(kinds)
        IN fn_out.v = [i \in 1..Len(lists) |-> "["]
                      \o LeafText(Innermost(fn_in.t))
                      \o [i \in 1..Len(closing) |->
                             IF closing[i] = T_NON_NULL THEN "!" ELSE "]"]

\* C20 witness: NON_NULL(LIST(NON_NULL(LIST(NON_NULL(User))))) rendered as
\* [[User!]!]!.
C20_Witness ==
    /\ Applied("format")
    /\ fn_in.t = NonNull(ListOf(NonNull(ListOf(NonNull(Named(T_User, T_OBJECT))))))
    /\ fn_out.v = <<"[", "[", "U", "s", "e", "r", "!", "]", "!", "]", "!">>

(***************************************************************************)
(* Further properties of poll_until_done.                                  *)
(***************************************************************************)
PollEnded(kinds) == pc = "returned" /\ outcome \in kinds

\* C23: the delay and the polling.count increment happen only between
\* attempts: an invocation that issued k requests slept k - 1 times, and
\* one that ends EXHAUSTED still holds the body its last request sent.
C23_DelayOnlyBetweenAttempts ==
    /\ (PollEnded({"DONE", "EXHAUSTED"}) /\ Len(requests) > 0) =>
           slept = Len(requests) - 1
    /\ (PollEnded({"EXHAUSTED"}) /\ Len(requests) > 0) =>
           RequestBody(body_dict) = requests[Len(requests)].body

\* C26: an invocation never ends DONE on an attempt k >= 2 whose response
\* has the done field missing or null.
C26_MissingFieldNeverDone ==
    (PollEnded({"DONE"}) /\ attempt >= 2) => Extracted(attempt) # None

\* C27: what a DONE invocation returns describes the dataset it registered
\* under name: same table, rows = its record count, data a prefix of it.
C27_DoneReportsRegisteredDataset ==
    PollEnded({"DONE"}) =>
        /\ HasKey(query_results, name)
        /\ ret.table = name
        /\ LET registered == DictGet(query_results, name).v
           IN /\ ret.rows = Len(registered)
              /\ Len(ret.data.v) <= Len(registered)
              /\ \A i \in 1..Len(ret.data.v) : ret.data.v[i] = registered[i]

(***************************************************************************)
(* Further properties of one question's processing.                        *)
(***************************************************************************)
\* Every request handed to execute_request or graphql_fetch so far.
AllIssued == issued \o (IF api_type = "rest" THEN PollIssued ELSE <<>>)

\* Record i of the call log describes request i.
Logs(record, request) ==
    IF api_type = "rest"
    THEN record.method = request.method /\ record.path = request.path
    ELSE record = request

\* C24: the call log holds exactly one record per request the question's
\* tools issued (rest_call, every attempt of poll_until_done,
\* graphql_query), in issue order, whatever the request came to; the record
\* is in the log when the tool hands back its result.
C24_EveryRequestLogged ==
    stage \in {"running", "answered"} =>
        /\ Len(CallLog) = Len(AllIssued)
        /\ \A i \in 1..Len(CallLog) : Logs(CallLog[i], AllIssued[i])

\* C24 witness: two requests were issued, the second was blocked by the
\* verb policy, and the log holds both.
C24_Witness ==
    /\ stage = "running"
    /\ api_type = "rest"
    /\ Len(issued) = 2
    /\ Len(rest_calls) = 2
    /\ rest_calls[2].method = "POST"
    /\ "success" \in DOMAIN tool_ret
    /\ ~tool_ret.success
    /\ tool_ret.error = T_not_allowed

QuestionEndings == {"final", "no_output", "max_turns"} \cup ExceptionClasses

\* C25: however the question ends, the api_calls / queries of the outcome
\* list every call issued during the question, in issue order.
C25_OutcomeListsIssuedCalls ==
    (stage = "answered" /\ ending \in QuestionEndings) =>
        /\ Len(Listed(api_type, answer)) = Len(AllIssued)
        /\ \A i \in 1..Len(AllIssued) : Logs(Listed(api_type, answer)[i], AllIssued[i])

Failed(r) == "success" \in DOMAIN r /\ ~r.success

\* C28: a tool invocation that ends in failure changes neither the registry
\* nor the last-full-result holder (rest_call, graphql_query and sql_query
\* reporting success = false; poll_until_done ending MALFORMED_BODY,
\* FIELD_MISSING, REQUEST_FAILED or EXHAUSTED), and a sql_query that
\* succeeds changes at most the last-full-result holder.
C28_FailureLeavesStorageUnchanged ==
    [][ /\ (pc = "idle" /\ pc' = "idle" /\ turns' = turns + 1 /\ Failed(tool_ret')) =>
               UNCHANGED <<query_results, last_result>>
        /\ (pc' = "returned" /\ pc # "returned"
            /\ outcome' \in {"MALFORMED_BODY", "FIELD_MISSING", "REQUEST_FAILED", "EXHAUSTED"}) =>
               UNCHANGED <<query_results, last_result>>
        /\ (pc = "sleep" \/ (pc = "request" /\ pc' # "returned")) =>
               UNCHANGED <<query_results, last_result>>
        /\ (pc = "idle" /\ pc' = "idle" /\ turns' = turns + 1 /\ ~IsRaised(tool_ret')
            /\ "table" \in DOMAIN tool_ret' /\ tool_ret'.table = N_sql_result) =>
               UNCHANGED query_results
      ]_vars

\* C28 witness: with a dataset registered and held, a tool has just
\* reported a failure.
C28_Witness ==
    /\ stage = "running"
    /\ Len(writes) > 0
    /\ Truthy(last_result)
    /\ Failed(tool_ret)

\* C29: in every outcome, of process_rest_query / process_query and of the
\* unified query tool, ok is true exactly when error is null; a failure
\* carries an error string and a success a data string.
C29_OkIffNoError ==
    stage \in {"answered", "rejected"} =>
        \A include_result \in BOOLEAN :
            LET response == IF ending = "missing_header" THEN answer
                            ELSE unified_query(api_type, answer, include_result)
                sound(o) == /\ o.ok <=> (o.error = None)
                            /\ ~o.ok => o.error.t = "str"
                            /\ o.ok => (o.data.t = "str" /\ Len(o.data.v) > 0)
            IN sound(answer) /\ sound(response)

\* C29 witness: an agent run that ended without output and without data
\* was answered with ok = false and an error.
C29_Witness ==
    /\ stage = "answered"
    /\ ending = "no_output"
    /\ ~answer.ok
    /\ answer.error.t = "str"

(***************************************************************************)
(* The GraphQL schema compactor: _build_schema_context and the size        *)
(* governance of _fetch_schema_context, on drawn introspection results.    *)
(***************************************************************************)
\* settings.MAX_SCHEMA_CHARS, scaled down to the size of the drawn schemas.
MAX_SCHEMA_CHARS == 121

K_type == <<"t", "y", "p", "e">>
K_defaultValue == <<"d", "e", "f", "a", "u", "l", "t", "V", "a", "l", "u", "e">>
K_description == <<"d", "e", "s", "c", "r", "i", "p", "t", "i", "o", "n">>
K_args == <<"a", "r", "g", "s">>
K_fields == <<"f", "i", "e", "l", "d", "s">>
K_queryType == <<"q", "u", "e", "r", "y", "T", "y", "p", "e">>
K_types == <<"t", "y", "p", "e", "s">>
K_interfaces == <<"i", "n", "t", "e", "r", "f", "a", "c", "e", "s">>
K_possibleTypes == <<"p", "o", "s", "s", "i", "b", "l", "e", "T", "y", "p", "e", "s">>
K_enumValues == <<"e", "n", "u", "m", "V", "a", "l", "u", "e", "s">>
K_inputFields == <<"i", "n", "p", "u", "t", "F", "i", "e", "l", "d", "s">>
K_success == <<"s", "u", "c", "c", "e", "s", "s">>
K_data == <<"d", "a", "t", "a">>
K___schema == <<"_", "_", "s", "c", "h", "e", "m", "a">>
T_ENUM == <<"E", "N", "U", "M">>
T_INPUT_OBJECT == <<"I", "N", "P", "U", "T", "_", "O", "B", "J", "E", "C", "T">>
T_INTERFACE == <<"I", "N", "T", "E", "R", "F", "A", "C", "E">>
T_UNION == <<"U", "N", "I", "O", "N">>
T_Query == <<"Q", "u", "e", "r", "y">>
T_Mutation == <<"M", "u", "t", "a", "t", "i", "o", "n">>
T_Subscription == <<"S", "u", "b", "s", "c", "r", "i", "p", "t", "i", "o", "n">>
T_dunder == <<"_", "_">>
T_queries_section == <<"<", "q", "u", "e", "r", "i", "e", "s", ">">>
T_interfaces_section == <<"\n", "<", "i", "n", "t", "e", "r", "f", "a", "c", "e", "s", ">">>
T_unions_section == <<"\n", "<", "u", "n", "i", "o", "n", "s", ">">>
T_types_section == <<"\n", "<", "t", "y", "p", "e", "s", ">">>
T_enums_section == <<"\n", "<", "e", "n", "u", "m", "s", ">">>
T_inputs_section == <<"\n", "<", "i", "n", "p", "u", "t", "s", ">">>
T_implemented_by == <<" ", "#", " ", "i", "m", "p", "l", "e", "m", "e", "n", "t", "e", "d", " ", "b", "y", ":", " ">>
T_implements == <<" ", "i", "m", "p", "l", "e", "m", "e", "n", "t", "s", " ">>
T_schema_truncated == <<"\n", "[", "S", "C", "H", "E", "M", "A", " ", "T", "R", "U", "N", "C", "A", "T", "E", "D", " ", "-", " ", "u", "s", "e", " ", "s", "e", "a", "r", "c", "h", "_", "s", "c", "h", "e", "m", "a", "(", ")", " ", "t", "o", " ", "e", "x", "p", "l", "o", "r", "e", "]">>
T_comment == <<" ", "#", " ">>
T_arrow == <<")", " ", "-", ">", " ">>
T_comma == <<",", " ">>
T_colon == <<":", " ">>
T_bar == <<" ", "|", " ">>
T_equals == <<" ", "=", " ">>
T_open_brace == <<" ", "{">>
T_open_fields == <<" ", "{", " ">>
T_close_fields == <<" ", "}">>
T_close_brace == <<"\n", "}">>
T_newline == <<"\n">>
T_indent == <<" ", " ">>

\* [f(x) for x in items]
Each(items, f(_)) == [i \in 1..Len(items) |-> f(items[i])]

\* d.get(key, []) or []
Members(d, key) == IF Truthy(DictGet(d, key)) THEN DictGet(d, key).v ELSE <<>>

\* p["name"] for a named entry
NameOf(p) == DictGet(p, K_name).v

_is_required_Anywhere(type_def) ==
    Truthy(type_def) /\ T_NON_NULL \in {WrapperKinds(type_def)[i] : i \in 1..Len(WrapperKinds(type_def))}

_is_required(type_def) ==
    IF Truthy(type_def) THEN DictGet(type_def, K_kind) = JStr(T_NON_NULL) ELSE FALSE

_format_arg(a) ==
    LET type_str == _format_type(DictGet(a, K_type))
        default == DictGet(a, K_defaultValue)
    IN IF default # None
       THEN NameOf(a) \o T_colon \o type_str \o T_equals \o default.v
       ELSE NameOf(a) \o T_colon \o type_str

_filter_required_args(args) ==
    SelectSeq(args, LAMBDA a : _is_required(DictGet(a, K_type)))

\* " # description" when the entry has a description
DescriptionSuffix(f) ==
    IF Truthy(DictGet(f, K_description))
    THEN T_comment \o DictGet(f, K_description).v
    ELSE <<>>

_format_field(fld) ==
    LET args == Members(fld, K_args)
        arg_str == IF Len(args) > 0
                   THEN <<"(">> \o Join(Each(args, _format_arg), T_comma) \o <<")">>
                   ELSE <<>>
    IN T_indent \o NameOf(fld) \o arg_str \o T_colon
          \o _format_type(DictGet(fld, K_type)) \o DescriptionSuffix(fld)

QueryLine(f) ==
    LET required_args == _filter_required_args(Members(f, K_args))
        args == Join(Each(required_args, _format_arg), T_comma)
    IN NameOf(f) \o <<"(">> \o args \o T_arrow
          \o _format_type(DictGet(f, K_type)) \o DescriptionSuffix(f)

InterfaceBlock(t) ==
    LET impl == Each(Members(t, K_possibleTypes), NameOf)
        impl_str == IF Len(impl) > 0 THEN T_implemented_by \o Join(impl, T_comma) ELSE <<>>
        fields == Each(Members(t, K_fields), _format_field)
    IN NameOf(t) \o T_open_brace \o impl_str \o T_newline
          \o Join(fields, T_newline) \o T_close_brace

UnionLine(t) ==
    NameOf(t) \o T_colon \o Join(Each(Members(t, K_possibleTypes), NameOf), T_bar)

ObjectBlock(t) ==
    LET impl == Each(Members(t, K_interfaces), NameOf)
        impl_str == IF Len(impl) > 0 THEN T_implements \o Join(impl, T_comma) ELSE <<>>
        fields == Each(Members(t, K_fields), _format_field)
    IN NameOf(t) \o impl_str \o T_open_brace \o T_newline
          \o Join(fields, T_newline) \o T_close_brace

EnumLine(e) ==
    NameOf(e) \o T_colon \o Join(Each(Members(e, K_enumValues), NameOf), T_bar)

InputField(f) == NameOf(f) \o T_colon \o _format_type(DictGet(f, K_type))

InputLine(inp) ==
    LET required_fields == SelectSeq(Members(inp, K_inputFields),
                                     LAMBDA f : _is_required(DictGet(f, K_type)))
    IN NameOf(inp) \o T_open_fields
          \o Join(Each(required_fields, InputField), T_comma) \o T_close_fields

OfKind(types, kind) == SelectSeq(types, LAMBDA t : DictGet(t, K_kind) = JStr(kind))

_build_schema_context(schema) ==
    LET queries == IF HasKey(schema, K_queryType)
                   THEN Members(DictGet(schema, K_queryType), K_fields)
                   ELSE <<>>
        all_types == SelectSeq(Members(schema, K_types),
                               LAMBDA t : ~StartsWith(NameOf(t), T_dunder))
        objects == SelectSeq(OfKind(all_types, T_OBJECT),
                             LAMBDA t : NameOf(t) \notin {T_Query, T_Mutation, T_Subscription})
        enums == OfKind(all_types, T_ENUM)
        inputs == OfKind(all_types, T_INPUT_OBJECT)
        interfaces == OfKind(all_types, T_INTERFACE)
        unions == OfKind(all_types, T_UNION)
        lines == <<T_queries_section>> \o Each(queries, QueryLine)
                 \o (IF Len(interfaces) > 0
                     THEN <<T_interfaces_section>> \o Each(interfaces, InterfaceBlock)
                     ELSE <<>>)
                 \o (IF Len(unions) > 0
                     THEN <<T_unions_section>> \o Each(unions, UnionLine)
                     ELSE <<>>)
                 \o <<T_types_section>> \o Each(objects, ObjectBlock)
                 \o <<T_enums_section>> \o Each(enums, EnumLine)
                 \o <<T_inputs_section>> \o Each(inputs, InputLine)
    IN Join(lines, T_newline)

\* Where sub first occurs in text, 0 when it does not.
FirstAt(text, sub) ==
    IF Contains(text, sub)
    THEN CHOOSE i \in 1..(Len(text) - Len(sub) + 1) :
            /\ SubSeq(text, i, i + Len(sub) - 1) = sub
            /\ \A j \in 1..(i - 1) : SubSeq(text, j, j + Len(sub) - 1) # sub
    ELSE 0

\* re.sub(r" #[^\n]*", "", context): each " #", leftmost first, goes with
\* what follows it on its line.
RECURSIVE _strip_descriptions(_)
_strip_descriptions(context) ==
    LET at == FirstAt(context, <<" ", "#">>)
        rest == SubSeq(context, at, Len(context))
        line_end == FirstAt(rest, T_newline)
    IN IF at = 0 THEN context
       ELSE SubSeq(context, 1, at - 1)
               \o (IF line_end = 0 THEN <<>>
                   ELSE _strip_descriptions(SubSeq(rest, line_end, Len(rest))))

\* graphql_agent.py:192-198 with the strip applied at the ceiling already.
GovernSize_StripsAtCeiling(context) ==
    IF Len(context) >= MAX_SCHEMA_CHARS
    THEN LET stripped == _strip_descriptions(context)
         IN IF Len(stripped) > MAX_SCHEMA_CHARS
            THEN SubSeq(stripped, 1, MAX_SCHEMA_CHARS) \o T_schema_truncated
            ELSE stripped
    ELSE context

\* graphql_agent.py:192-198
GovernSize(context) ==
    IF Len(context) > MAX_SCHEMA_CHARS
    THEN LET stripped == _strip_descriptions(context)
         IN IF Len(stripped) > MAX_SCHEMA_CHARS
            THEN SubSeq(stripped, 1, MAX_SCHEMA_CHARS) \o T_schema_truncated
            ELSE stripped
    ELSE context

\* _fetch_schema_context, from the introspection result on: the returned
\* text and whether the Raw Schema Blob is set.
_fetch_schema_context(result) ==
    IF ~Truthy(DictGet(result, K_success)) \/ ~Truthy(DictGet(result, K_data))
    THEN [text |-> <<>>, blob |-> FALSE]
    ELSE LET schema == DictGet(DictGet(result, K_data), K___schema)
         IN [text |-> GovernSize(_build_schema_context(schema)), blob |-> TRUE]

T_ID == <<"I", "D">>
T_Int == <<"I", "n", "t">>
T_Post == <<"P", "o", "s", "t">>
T_Node == <<"N", "o", "d", "e">>
T_Hit == <<"H", "i", "t">>
T_Role == <<"R", "o", "l", "e">>
T_ADMIN == <<"A", "D", "M", "I", "N">>
T_GUEST == <<"G", "U", "E", "S", "T">>
T_UserInput == <<"U", "s", "e", "r", "I", "n", "p", "u", "t">>
T___Schema == <<"_", "_", "S", "c", "h", "e", "m", "a">>
T___InputValue == <<"_", "_", "I", "n", "p", "u", "t", "V", "a", "l", "u", "e">>
T_me == <<"m", "e">>
T_n == <<"n">>
T_tags == <<"t", "a", "g", "s">>
T_page == <<"p", "a", "g", "e">>
T_posts == <<"p", "o", "s", "t", "s">>
T_ten == <<"1", "0">>
T_all_users == <<"a", "l", "l", " ", "u", "s", "e", "r", "s">>
T_by_date == <<"b", "y", " ", "d", "a", "t", "e">>

Arg(arg_name, type) == JDict(<<KV(K_name, JStr(arg_name)), KV(K_type, type)>>)
ArgWithDefault(arg_name, type, default) ==
    JDict(<<KV(K_name, JStr(arg_name)), KV(K_type, type), KV(K_defaultValue, JStr(default))>>)

\* Arguments and input fields: required, optional with a default, a list
\* of non-null items (NON_NULL below the top level), required with a
\* default, and one without a type.
SchemaArgs ==
    { Arg(K_id, NonNull(Named(T_ID, T_SCALAR))),
      ArgWithDefault(T_n, Named(T_Int, T_SCALAR), T_ten),
      Arg(T_tags, ListOf(NonNull(Named(T_String, T_SCALAR)))),
      ArgWithDefault(T_page, NonNull(Named(T_Int, T_SCALAR)), T_ten),
      JDict(<<KV(K_name, JStr(K_meta))>>) }

ArgLists == {<<>>} \cup {<<a>> : a \in SchemaArgs} \cup {<<a, b>> : a, b \in SchemaArgs}

InputFieldLists ==
    { <<>>,
      <<Arg(K_id, NonNull(Named(T_ID, T_SCALAR)))>>,
      <<ArgWithDefault(T_n, Named(T_Int, T_SCALAR), T_ten), Arg(K_id, NonNull(Named(T_ID, T_SCALAR)))>>,
      <<Arg(T_tags, ListOf(NonNull(Named(T_String, T_SCALAR))))>>,
      <<Arg(K_id, NonNull(Named(T_ID, T_SCALAR))), JDict(<<KV(K_name, JStr(K_meta))>>),
        Arg(T_page, NonNull(ListOf(Named(T_Int, T_SCALAR))))>> }

TypeDef(type_name, kind, members) ==
    JDict(<<KV(K_name, JStr(type_name)), KV(K_kind, JStr(kind))>> \o members)

Ref(type_name) == JDict(<<KV(K_name, JStr(type_name))>>)

IdField ==
    JDict(<<KV(K_name, JStr(K_id)), KV(K_args, JList(<<>>)),
            KV(K_type, NonNull(Named(T_ID, T_SCALAR)))>>)

PostsField ==
    JDict(<<KV(K_name, JStr(T_posts)),
            KV(K_description, JStr(T_by_date)),
            KV(K_args, JList(<<ArgWithDefault(T_n, Named(T_Int, T_SCALAR), T_ten)>>)),
            KV(K_type, ListOf(Named(T_Post, T_OBJECT)))>>)

UserType == TypeDef(T_User, T_OBJECT, <<KV(K_fields, JList(<<IdField, PostsField>>))>>)

UserNode ==
    TypeDef(T_User, T_OBJECT, <<KV(K_interfaces, JList(<<Ref(T_Node)>>)),
                                KV(K_fields, JList(<<IdField>>))>>)

NodeInterface ==
    TypeDef(T_Node, T_INTERFACE, <<KV(K_fields, JList(<<IdField>>)),
                                   KV(K_possibleTypes, JList(<<Ref(T_User), Ref(T_Post)>>))>>)

HitUnion == TypeDef(T_Hit, T_UNION, <<KV(K_possibleTypes, JList(<<Ref(T_User), Ref(T_Post)>>))>>)

RoleEnum == TypeDef(T_Role, T_ENUM, <<KV(K_enumValues, JList(<<Ref(T_ADMIN), Ref(T_GUEST)>>))>>)

Meta(type_name) == TypeDef(type_name, T_OBJECT, <<KV(K_fields, JList(<<IdField>>))>>)

InputType(type_name, input_fields) ==
    TypeDef(type_name, T_INPUT_OBJECT, <<KV(K_inputFields, JList(input_fields))>>)

\* The types of a schema, around one input type with the drawn fields.
TypeLists(input_fields) ==
    { <<InputType(T_UserInput, input_fields)>>,
      <<UserType, InputType(T_UserInput, input_fields)>>,
      <<Meta(T_Query), UserType, InputType(T_UserInput, input_fields), RoleEnum>>,
      <<Meta(T___Schema), Meta(T_Mutation), InputType(T_UserInput, input_fields),
        Meta(T_Subscription)>>,
      <<NodeInterface, UserNode, HitUnion, RoleEnum, InputType(T_UserInput, input_fields)>>,
      <<InputType(T___InputValue, input_fields), UserType,
        TypeDef(T_Query, T_INTERFACE, <<KV(K_fields, JList(<<IdField>>))>>),
        InputType(T_UserInput, input_fields)>> }

UsersQuery(args, description) ==
    JDict(<<KV(K_name, JStr(K_users)), KV(K_description, description),
            KV(K_args, JList(args)),
            KV(K_type, NonNull(ListOf(NonNull(Named(T_User, T_OBJECT)))))>>)

MeQuery == JDict(<<KV(K_name, JStr(T_me)), KV(K_type, Named(T_User, T_OBJECT))>>)

Schemas ==
    { JDict(<<KV(K_queryType, JDict(<<KV(K_fields, JList(<<UsersQuery(args, description), MeQuery>>))>>)),
              KV(K_types, JList(types))>>) :
        args \in ArgLists, description \in {None, JStr(T_all_users)},
        types \in UNION {TypeLists(input_fields) : input_fields \in InputFieldLists} }

\* What graphql_fetch hands back for the introspection query.
IntrospectionResults ==
    { JDict(<<KV(K_success, JBool(TRUE)), KV(K_data, JDict(<<KV(K___schema, s)>>))>>) :
        s \in Schemas }
    \cup { JDict(<<KV(K_success, JBool(FALSE)), KV(K_data, None)>>),
           JDict(<<KV(K_success, JBool(TRUE)), KV(K_data, None)>>) }

InitSchema ==
    /\ ctx_allow = <<>>
    /\ rest_calls = <<>>
    /\ query_results = JDict(<<>>)
    /\ last_result = None
    /\ PollIdle
    /\ \/ fn_in \in [op : {"build"}, schema : Schemas]
       \/ fn_in \in [op : {"fetch"}, result : IntrospectionResults]
    /\ fn_out = NoRet
    /\ QuestionIdle
    /\ TasksIdle

ApplyBuild ==
    /\ fn_out = NoRet
    /\ fn_in.op = "build"
    /\ fn_out' = JStr(_build_schema_context(fn_in.schema))
    /\ UNCHANGED <<ctx_allow, session, pollvars, fn_in, question, tasks>>

ApplyFetch ==
    /\ fn_out = NoRet
    /\ fn_in.op = "fetch"
    /\ LET fetched == _fetch_schema_context(fn_in.result)
       IN /\ fn_out' = JStr(fetched.text)
          /\ raw_schema' = IF fetched.blob THEN IntrospectionSchema ELSE raw_schema
    /\ UNCHANGED <<ctx_allow, session, pollvars, fn_in, api_type, stage, turns,
                   graphql_queries, answer, tool_ret, writes, ending, issued, tasks>>

SchemaNext == ApplyBuild \/ ApplyFetch

SchemaSpec == InitSchema /\ [][SchemaNext]_vars

RECURSIVE SplitOn(_, _)
SplitOn(text, sep) ==
    LET at == FirstAt(text, sep)
    IN IF at = 0 THEN <<text>>
       ELSE <<SubSeq(text, 1, at - 1)>> \o SplitOn(SubSeq(text, at + Len(sep), Len(text)), sep)

Before(text, sub) == SubSeq(text, 1, FirstAt(text, sub) - 1)
After(text, sub) == SubSeq(text, FirstAt(text, sub) + Len(sub), Len(text))

\* The names a rendered list "a: T, b: U = d" gives.
ListedNames(rendered) ==
    IF rendered = <<>> THEN <<>>
    ELSE Each(SplitOn(rendered, T_comma), LAMBDA part : Before(part, T_colon))

\* The entries whose type is NON_NULL at the top level, by name.
RequiredNames(entries) ==
    Each(SelectSeq(entries,
                   LAMBDA a : /\ HasKey(a, K_type)
                              /\ HasKey(DictGet(a, K_type), K_kind)
                              /\ DictGet(DictGet(a, K_type), K_kind).v = T_NON_NULL),
         NameOf)

\* The lines of a section of the text: from its header to the next blank
\* line.
RECURSIVE UpToBlank(_)
UpToBlank(text_lines) ==
    IF text_lines = <<>> \/ Head(text_lines) = <<>> THEN <<>>
    ELSE <<Head(text_lines)>> \o UpToBlank(Tail(text_lines))

SectionLines(text, header) ==
    LET text_lines == SplitOn(text, T_newline)
        at == CHOOSE i \in 1..Len(text_lines) : text_lines[i] = header
    IN UpToBlank(SubSeq(text_lines, at + 1, Len(text_lines)))

MetaTypeNames == {T_Query, T_Mutation, T_Subscription}

\* C21: in the text _build_schema_context returns, the signature of each
\* top-level query lists exactly the arguments whose type is NON_NULL at
\* the top level, each input type lists exactly its fields whose type is
\* NON_NULL at the top level, and the types section renders the OBJECT
\* types other than Query, Mutation and Subscription and those whose name
\* starts with "__", and no others.
C21_OnlyRequiredListed ==
    Applied("build") =>
        LET schema == fn_in.schema
            queries == DictGet(DictGet(schema, K_queryType), K_fields).v
            types == DictGet(schema, K_types).v
            signatures == SectionLines(fn_out.v, T_queries_section)
            input_lines == SectionLines(fn_out.v, Tail(T_inputs_section))
            inputs == SelectSeq(types, LAMBDA t : /\ DictGet(t, K_kind).v = T_INPUT_OBJECT
                                                  /\ ~StartsWith(NameOf(t), T_dunder))
            heads == SelectSeq(SectionLines(fn_out.v, Tail(T_types_section)),
                               LAMBDA l : Len(l) > 2 /\ SubSeq(l, Len(l) - 1, Len(l)) = T_open_brace)
            rendered == Each(heads, LAMBDA l : Before(l, <<" ">>))
        IN /\ Len(signatures) = Len(queries)
           /\ \A i \in 1..Len(queries) :
                 /\ Before(signatures[i], <<"(">>) = NameOf(queries[i])
                 /\ ListedNames(Before(After(signatures[i], <<"(">>), <<")">>))
                      = RequiredNames(Members(queries[i], K_args))
           /\ Len(input_lines) = Len(inputs)
           /\ \A i \in 1..Len(inputs) :
                 /\ Before(input_lines[i], T_open_fields) = NameOf(inputs[i])
                 /\ ListedNames(Before(After(input_lines[i], T_open_fields), T_close_fields))
                      = RequiredNames(Members(inputs[i], K_inputFields))
           /\ \A i \in 1..Len(rendered) :
                 rendered[i] \notin MetaTypeNames /\ ~StartsWith(rendered[i], T_dunder)
           /\ rendered = Each(SelectSeq(types, LAMBDA t :
                                 /\ DictGet(t, K_kind).v = T_OBJECT
                                 /\ NameOf(t) \notin MetaTypeNames
                                 /\ ~StartsWith(NameOf(t), T_dunder)), NameOf)

\* C21 witness: users(tags: [String!], id: ID!) rendered as users(id: ID!),
\* UserInput {n: Int = 10, id: ID!} as UserInput { id: ID! }, and of the
\* types Query and User only User.
C21_Witness ==
    /\ Applied("build")
    /\ LET schema == fn_in.schema
           users == DictGet(DictGet(schema, K_queryType), K_fields).v[1]
           types == DictGet(schema, K_types).v
       IN /\ Each(DictGet(users, K_args).v, NameOf) = <<T_tags, K_id>>
          /\ Each(types, NameOf) = <<T_Query, T_User, T_UserInput, T_Role>>
          /\ Each(Members(types[3], K_inputFields), NameOf) = <<T_n, K_id>>
    /\ Contains(fn_out.v, K_users \o <<"(">> \o K_id \o T_colon \o T_ID \o <<"!">> \o T_arrow)
    /\ Contains(fn_out.v, T_UserInput \o T_open_fields \o K_id \o T_colon \o T_ID \o <<"!">>
                          \o T_close_fields)
    /\ Contains(fn_out.v, T_types_section \o T_newline \o T_User \o T_open_brace)

\* The text with, on every line, what follows the first " #" removed.
Uncommented(text) ==
    Join(Each(SplitOn(text, T_newline),
              LAMBDA l : IF FirstAt(l, <<" ", "#">>) > 0 THEN Before(l, <<" ", "#">>) ELSE l),
         T_newline)

Fetched == Applied("fetch") /\ Truthy(DictGet(fn_in.result, K_data))

\* C22: the text _fetch_schema_context returns is the rendered text,
\* comments included, when that is at most MAX_SCHEMA_CHARS long; else the
\* rendered text without its "# comment" annotations when that is at most
\* MAX_SCHEMA_CHARS long; else the first MAX_SCHEMA_CHARS characters of
\* the uncommented text followed by the marker that names search_schema().
C22_SchemaSizeGovernance ==
    Fetched =>
        LET rendered == _build_schema_context(DictGet(DictGet(fn_in.result, K_data), K___schema))
            stripped == Uncommented(rendered)
        IN fn_out.v = IF Len(rendered) <= MAX_SCHEMA_CHARS THEN rendered
                      ELSE IF Len(stripped) <= MAX_SCHEMA_CHARS THEN stripped
                      ELSE SubSeq(stripped, 1, MAX_SCHEMA_CHARS) \o T_schema_truncated

\* C22 witness: a rendered text with comments, over the ceiling with and
\* without them, comes back cut at the ceiling with the marker.
C22_Witness ==
    /\ Fetched
    /\ LET rendered == _build_schema_context(DictGet(DictGet(fn_in.result, K_data), K___schema))
       IN /\ Contains(rendered, T_comment)
          /\ Len(Uncommented(rendered)) > MAX_SCHEMA_CHARS
    /\ Len(fn_out.v) = MAX_SCHEMA_CHARS + Len(T_schema_truncated)
    /\ ~Contains(fn_out.v, T_comment)
    /\ SubSeq(fn_out.v, MAX_SCHEMA_CHARS + 1, Len(fn_out.v)) = T_schema_truncated

\* The schema lines only the earlier question's blob has.
EarlierOnly ==
    {EarlierSchema[i] : i \in 1..Len(EarlierSchema)}
        \ ({OpenApiSchema[i] : i \in 1..Len(OpenApiSchema)}
              \cup {IntrospectionSchema[i] : i \in 1..Len(IntrospectionSchema)})

\* C30: once a question is past its start, nothing an earlier question of
\* the same context stored is left to observe: while tools can run the Raw
\* Schema Blob is not the earlier question's, a search_schema result shows
\* no line of the earlier schema, and between tool invocations the
\* registry and the holder are empty until the question stores something
\* and the call log is empty until it issues something; this also when the
\* schema fetch of the question failed.
C30_NothingOfEarlierQuestionObservable ==
    /\ stage = "running" => raw_schema # EarlierSchema
    /\ (stage \in {"running", "answered"} /\ "hits" \in DOMAIN tool_ret) =>
          \A i \in 1..Len(tool_ret.hits) : tool_ret.hits[i].text \notin EarlierOnly
    /\ (stage \in {"running", "answered"} /\ writes = <<>> /\ pc = "idle") =>
          (query_results = JDict(<<>>) /\ last_result = None)
    /\ (stage \in {"running", "answered"} /\ issued = <<>> /\ pc = "idle") => CallLog = <<>>

====
